---- MODULE Spec2Model ----
(***************************************************************************)
(* A model of the occurrence store of obsidian-occurrences: the class      *)
(* OccurrenceStore (src/src/occurrenceStore/storeOperations.ts, lines      *)
(* 152-801) with its tag index OccurrenceSearch (src/unnamed/part_002),    *)
(* running against a host (the vault and the metadata cache).              *)
(*                                                                         *)
(* Strings are sequences of tokens.  A file's base name is a sequence over *)
(* Tok: "s1" and "s2" stand for two texts that match the date pattern      *)
(* \d{4}-\d{2}-\d{2} \d{2}\d{2}, "nan" for the text "NaN-NaN-NaN NaNNaN"   *)
(* that an invalid Date formats to (it does not match the pattern), "sp"   *)
(* for one blank, and the other tokens for words.                          *)
(*                                                                         *)
(* Scheduling is JavaScript's: the code between two awaits is one atomic   *)
(* step.  An await of a promise that is already settled (the store's own   *)
(* async functions do no I/O) resumes in a microtask, and every pending    *)
(* microtask runs before the host delivers its next notification, fires a  *)
(* timer or completes an I/O request.  Calls of the public API may come    *)
(* at any time (a caller may itself run in a microtask).                   *)
(***************************************************************************)
EXTENDS Integers, Sequences, FiniteSets, TLC

\* ---------------------------------------------------------------- bounds
MaxFiles == 2
MaxOps == 2
MaxLoads == 2
MaxTasks == 2
MaxNameLen == 5
MaxSubs == 3
MaxEmits == 2
MaxRecs == 3

\* ------------------------------------------------------------- constants
maxAttempts == 10

FileIds == 1..MaxFiles

\* ------------------------------------------------------------------ dates
\* A Date value: two instants in the same minute ("d1", "d1s"), one in
\* another ("d2"), and the invalid Date ("inv").
Instants == {"d1", "d1s", "d2"}
InvalidDate == "inv"

\* the Date of time value 0
Epoch == "d0"

\* The raw occurred-at field of the front matter: absent ("none", the value
\* undefined), present without a value ("null"), a text that is no date
\* ("bad"), or the ISO text of an instant.
RawDates == {"none", "null", "bad"} \cup Instants

\* the raw values that are falsy
Falsy(raw) == raw \in {"none", "null"}

\* new Date(raw): new Date(undefined) is the invalid Date, new Date(null)
\* is the Date of time value 0
NewDate(raw) ==
  CASE raw \in Instants -> raw
    [] raw = "null" -> Epoch
    [] OTHER -> InvalidDate

\* Date.getTime() is NaN for the invalid Date
IsNaNTime(d) == d = InvalidDate

\* a.getTime() !== b.getTime(): NaN differs from every number and from NaN
TimeDiffers(a, b) == IsNaNTime(a) \/ IsNaNTime(b) \/ a # b

\* the date format "YYYY-MM-DD HHmm" filled in with the date's local fields:
\* the seconds are dropped, and an invalid Date gives "NaN-NaN-NaN NaNNaN"
FormatDate(d) ==
  CASE d = "d1" -> "s1"
    [] d = "d1s" -> "s1"
    [] d = "d2" -> "s2"
    [] d = Epoch -> "s0"
    [] OTHER -> "nan"

\* the tokens the pattern built from the format matches
MatchesDatePattern(tok) == tok \in {"s0", "s1", "s2"}

\* ------------------------------------------------------------ file names
RECURSIVE TrimStart(_)
TrimStart(s) ==
  IF s # <<>> /\ Head(s) = "sp" THEN TrimStart(Tail(s)) ELSE s

RECURSIVE TrimEnd(_)
TrimEnd(s) ==
  IF s # <<>> /\ s[Len(s)] = "sp" THEN TrimEnd(SubSeq(s, 1, Len(s) - 1)) ELSE s

Trim(s) == TrimEnd(TrimStart(s))

\* String.replace(regex, ""): the first match, wherever it is
RECURSIVE ReplaceFirstMatch(_)
ReplaceFirstMatch(s) ==
  IF s = <<>> THEN <<>>
  ELSE IF MatchesDatePattern(Head(s)) THEN Tail(s)
  ELSE <<Head(s)>> \o ReplaceFirstMatch(Tail(s))

removeDatePrefix(basename) == Trim(ReplaceFirstMatch(basename))

applyDatePrefix(title, date) == <<FormatDate(date), "sp">> \o title

\* ------------------------------------------------------------------ paths
\* A path: the folders, the base name and the extension.
NoPath == [dir |-> <<>>, base |-> <<>>, ext |-> ""]

MkPath(dir, base) == [dir |-> dir, base |-> base, ext |-> "md"]

\* `Occurrences/${fileName}.md`
RootPath(base) == MkPath(<<"Occurrences">>, base)

\* filePath.startsWith("Occurrences/") && filePath.endsWith(".md")
isRelevantFileAnywhere(p) == p.ext = "md"

isRelevantFile(p) ==
  /\ p.dir # <<>>
  /\ p.dir[1] = "Occurrences"
  /\ p.ext = "md"

\* ------------------------------------------------------------ front matter
\* The metadata cache's answer for a file: no cache entry yet ("unready"),
\* an entry without front matter ("nofm"), or front matter ("fm") with the
\* raw fields occurrence_occurred_at, occurrence_to_process, tags and one
\* other key, x ("none" when the key is absent).  Raw tags are absent
\* ("none"), an array ("arr"), one string ("str", v holds it) or a value
\* of another type ("num").
NoTags == [k |-> "none", v |-> <<>>]

TagArr(v) == [k |-> "arr", v |-> v]

TagStr(t) == [k |-> "str", v |-> <<t>>]

BlankFM(st) == [st |-> st, occ |-> "none", flag |-> FALSE, tags |-> NoTags, x |-> "none"]

MkFM(occ, flag, tags, x) == [st |-> "fm", occ |-> occ, flag |-> flag, tags |-> tags, x |-> x]

\* fileCache?.frontmatter ?? {}
FrontmatterOrEmpty(c) == IF c.st = "fm" THEN c ELSE BlankFM("fm")

\* fileCache && fileCache.frontmatter !== undefined
CacheReady(c) == c.st = "fm"

\* !occurrence_occurred_at || isNaN(new Date(..).getTime()) || occurrence_to_process
ToProcessOf(occ, flag) == Falsy(occ) \/ IsNaNTime(NewDate(occ)) \/ flag

\* normalizeTags: nothing gives [], an array is returned as it is, a string
\* becomes a one-element array, anything else gives []
normalizeTags(raw) ==
  CASE raw.k = "arr" -> raw.v
    [] raw.k = "str" -> <<raw.v[1]>>
    [] OTHER -> <<>>

\* ---------------------------------------------------------------- records
NoItem ==
  [path |-> NoPath, file |-> 0, title |-> <<>>,
   occurredAt |-> InvalidDate, toProcess |-> FALSE, tags |-> <<>>, x |-> "none"]

\* processFile, given the file's path and cache at the moment of the call
ParseFile(f, path, c) ==
  LET fm == FrontmatterOrEmpty(c) IN
  [path |-> path, file |-> f, title |-> removeDatePrefix(path.base),
   occurredAt |-> NewDate(fm.occ),
   toProcess |-> ToProcessOf(fm.occ, fm.flag),
   tags |-> normalizeTags(fm.tags),
   x |-> fm.x]

SeqToSet(s) == {s[i] : i \in DOMAIN s}

\* -------------------------------------------------------------- variables
VARIABLES
  vault,      \* the host: file id -> [st, path, disk, cache]
  items,      \* OccurrenceStore.items: path -> record
  tagIndex,   \* OccurrenceSearch.tagIndex: tag -> set of paths
  isLoading,  \* OccurrenceStore.isLoading
  tasks,      \* the suspended async calls, each with its position
  last,       \* what the latest step did: events emitted, host calls issued
  ops,        \* how many calls and host changes the environment has made
  loads,      \* how many times load() has been called
  bus,        \* an EventManager: its subscriptions and the emit under way
  srch,       \* an OccurrenceSearch at work: its inputs and its latest result
  pf          \* one file and its record: the parsing functions at work

vars == <<vault, items, tagIndex, isLoading, tasks, last, ops, loads, bus, srch, pf>>

\* the store and its host
storeVars == <<vault, items, tagIndex, isLoading, tasks, last, ops, loads>>

\* what no step of the store touches
otherVars == <<bus, srch, pf>>

\* ------------------------------------------------------------------- host
NoFile == [st |-> "none", path |-> NoPath, disk |-> BlankFM("nofm"), cache |-> BlankFM("unready")]

Live(f) == vault[f].st = "live"

\* vault.getAbstractFileByPath(path)
getAbstractFileByPath(v, path) == \E f \in FileIds : v[f].st = "live" /\ v[f].path = path

\* vault.getMarkdownFiles().filter(file => isRelevantFile(file.path)), in
\* the order of the file ids
RECURSIVE RelevantFilesFrom(_, _)
RelevantFilesFrom(v, f) ==
  IF f > MaxFiles THEN <<>>
  ELSE (IF v[f].st = "live" /\ isRelevantFile(v[f].path) THEN <<f>> ELSE <<>>)
       \o RelevantFilesFrom(v, f + 1)

getRelevantFiles(v) == RelevantFilesFrom(v, 1)

\* metadataCache.getFileCache(file): nothing for a file that is gone
getFileCache(v, f) == IF v[f].st = "live" THEN v[f].cache ELSE BlankFM("unready")

\* processFile(file), reading the host as it is now
processFileNoPath(v, f) == [ParseFile(f, v[f].path, getFileCache(v, f)) EXCEPT !.path = NoPath]

processFile(v, f) == ParseFile(f, v[f].path, getFileCache(v, f))

\* -------------------------------------------------------------- tag index
EmptyMap == [p \in {} |-> NoItem]

EmptyIndex == [t \in {} |-> {}]

\* OccurrenceSearch.updateTagIndex: every tag of the record gets an entry,
\* and the record's path is added to it or deleted from it
updateTagIndex(idx, item, action) ==
  LET ts == SeqToSet(item.tags) IN
  [t \in (DOMAIN idx) \cup ts |->
     LET old == IF t \in DOMAIN idx THEN idx[t] ELSE {} IN
     IF t \notin ts THEN old
     ELSE IF action = "add" THEN old \cup {item.path}
     ELSE old \ {item.path}]

\* OccurrenceSearch.updateIndexes
updateIndexes(idx, item, action) == updateTagIndex(idx, item, action)

\* Map.set and Map.delete
MapSet(m, k, val) == [p \in (DOMAIN m) \cup {k} |-> IF p = k THEN val ELSE m[p]]

MapDelete(m, k) == [p \in (DOMAIN m) \ {k} |-> m[p]]

\* ----------------------------------------------------------------- events
Ev(name, path, item) == [name |-> name, path |-> path, item |-> item]

\* The store's mutable state while one step runs: the map, the index and
\* the events emitted so far in the step.
St(m, idx, ev) == [items |-> m, idx |-> idx, ev |-> ev]

\* OccurrenceStore.remove(path)
removeQuiet(s, path) ==
  IF path \notin DOMAIN s.items THEN s
  ELSE St(MapDelete(s.items, path), updateIndexes(s.idx, s.items[path], "remove"), s.ev)

remove(s, path) ==
  IF path \notin DOMAIN s.items THEN s
  ELSE St(MapDelete(s.items, path),
          updateIndexes(s.idx, s.items[path], "remove"),
          Append(s.ev, Ev("item-removed", path, NoItem)))

\* ------------------------------------------------------------------ tasks
\* One suspended async call: what it is (kind), where it stands (pc), the
\* file it was called with, and the locals it still needs.
Task(kind, pc, f, item, todo, path, n, b, arg) ==
  [kind |-> kind, pc |-> pc, file |-> f, item |-> item, todo |-> todo,
   path |-> path, n |-> n, b |-> b, arg |-> arg]

NoArg == [title |-> <<>>, setDate |-> FALSE, occurredAt |-> InvalidDate,
          setTags |-> FALSE, tags |-> <<>>, setFlag |-> FALSE, toProcess |-> FALSE]

\* the positions a microtask resumes
MicroPcs == {"load.step", "add.then", "chg.gen", "chg.has", "chg.proc", "upd.proc",
             "del.ret"}

\* no continuation is waiting in the microtask queue: the host may act
MicroIdle == \A i \in DOMAIN tasks : tasks[i].pc \notin MicroPcs

\* A timing bound: whatever else happens while a waitForCacheAndAdd polls
\* happens before its second poll or after its last one (the polls in
\* between differ only in their number).
Quiet(t) == t.pc = "poll.wait" => t.n \in {1, maxAttempts}

PollQuiet == \A i \in DOMAIN tasks : Quiet(tasks[i])

\* the host may notify, fire a timer or complete a request: no microtask
\* is pending
HostMay == MicroIdle /\ PollQuiet

\* the environment may make a call or a change of its own
EnvMay == ops < MaxOps /\ PollQuiet

RemoveAt(s, i) == SubSeq(s, 1, i - 1) \o SubSeq(s, i + 1, Len(s))

\* what a step reports
Last(op, path, ev, calls, outcome) ==
  [op |-> op, path |-> path, emitted |-> ev, calls |-> calls, outcome |-> outcome,
   arg |-> NoArg]

\* what a call that takes an argument reports
LastOf(op, path, ev, calls, outcome, arg) ==
  [Last(op, path, ev, calls, outcome) EXCEPT !.arg = arg]

\* add(file): nothing for a file that is not relevant, else processFile is
\* called now and its result is handled in a microtask
addTasks(v, f) ==
  IF isRelevantFile(v[f].path)
  THEN <<Task("add", "add.then", f, processFile(v, f), <<>>, NoPath, 0, FALSE, NoArg)>>
  ELSE <<>>

\* waitForCacheAndAdd(file) up to its first suspension: the first poll
waitForCacheAndAddTasks(v, f) ==
  IF CacheReady(getFileCache(v, f)) THEN addTasks(v, f)
  ELSE <<Task("poll", "poll.wait", f, NoItem, <<>>, NoPath, 1, FALSE, NoArg)>>

\* ---------------------------------------------------------- the handlers
\* generateFileName(file): null (ok = FALSE) unless occurrence_occurred_at
\* is truthy
generateFileNameNever(v, f) == [ok |-> FALSE, name |-> <<>>]

generateFileName(v, f) ==
  LET fm == FrontmatterOrEmpty(getFileCache(v, f)) IN
  IF ~Falsy(fm.occ)
  THEN [ok |-> TRUE,
        name |-> applyDatePrefix(removeDatePrefix(v[f].path.base), NewDate(fm.occ))]
  ELSE [ok |-> FALSE, name |-> <<>>]

\* the values hasRelevantChanges parses anew (lines 555-561)
newOccurredAt(c) == NewDate(c.occ)

newToProcess(c) == Falsy(c.occ) \/ IsNaNTime(newOccurredAt(c)) \/ c.flag

\* hasRelevantChanges(file)
hasRelevantChangesNoFlag(v, m, f) ==
  LET c == getFileCache(v, f) IN
  IF c.st # "fm" THEN FALSE
  ELSE IF v[f].path \notin DOMAIN m THEN TRUE
  ELSE LET cachedItem == m[v[f].path] IN
       \/ TimeDiffers(cachedItem.occurredAt, NewDate(c.occ))
       \/ cachedItem.tags # normalizeTags(c.tags)
       \/ (c.x # "none" /\ c.x # cachedItem.x)

hasRelevantChanges(v, m, f) ==
  LET c == getFileCache(v, f) IN
  IF c.st # "fm" THEN FALSE
  ELSE IF v[f].path \notin DOMAIN m THEN TRUE
  ELSE LET cachedItem == m[v[f].path] IN
       \/ TimeDiffers(cachedItem.occurredAt, newOccurredAt(c))
       \/ cachedItem.toProcess # newToProcess(c)
       \/ cachedItem.tags # normalizeTags(c.tags)
       \/ (c.x # "none" /\ c.x # cachedItem.x)

\* the vault's "create" notification
onCreateDropped(v, f) == <<>>

onCreate(v, f) ==
  IF isRelevantFile(v[f].path) THEN waitForCacheAndAddTasks(v, f) ELSE <<>>

\* the metadata cache's "changed" notification, up to its first await
onChanged(v, f) ==
  IF ~isRelevantFile(v[f].path) THEN <<>>
  ELSE LET g == generateFileName(v, f) IN
       <<Task("chg", "chg.gen", f, NoItem, <<>>, [NoPath EXCEPT !.base = g.name], 0, g.ok, NoArg)>>

\* ------------------------------------------------------------------ Init
F1 == MkFM("d1", FALSE, TagArr(<<"t1">>), "none")

F2 == MkFM("d2", TRUE, TagArr(<<"t1", "t2">>), "v1")

F3 == MkFM("none", FALSE, TagStr("t2"), "none")

LiveFile(path, fm) == [st |-> "live", path |-> path, disk |-> fm, cache |-> fm]

\* The contents the vault starts with; the store starts empty.
InitVaults ==
  { [f \in FileIds |-> IF f = 1 THEN LiveFile(RootPath(<<"s1", "sp", "a">>), F1) ELSE NoFile],
    [f \in FileIds |-> IF f = 1 THEN LiveFile(RootPath(<<"s1", "sp", "a">>), F1)
                       ELSE IF f = 2 THEN LiveFile(RootPath(<<"s2", "sp", "a">>), F2)
                       ELSE NoFile],
    [f \in FileIds |-> IF f = 1 THEN LiveFile(RootPath(<<"s1", "sp", "a">>), F1)
                       ELSE IF f = 2 THEN LiveFile(RootPath(<<"b">>), F3)
                       ELSE NoFile] }

\* ----------------------------------------------------------- EventManager
\* The subscriptions are kept per event, in the order they were made; an
\* event without an array and an event with an empty one behave alike and
\* are both the empty sequence here.  A callback is a closure: what it does
\* when called is up to its author, so a called handler does any one thing
\* of HandlerActs.
EvNames == {"e1", "e2"}

Callbacks == {"c1", "c2"}

Refs == 0..(MaxSubs - 1)

Sub(callback, ref) == [cb |-> callback, ref |-> ref]

NoEvents == [e \in EvNames |-> <<>>]

\* on(event, callback): the new subscription goes last; its ref is nextId
on(b, event, callback) ==
  [b EXCEPT !.events[event] = Append(@, Sub(callback, b.nextId)),
            !.nextId = @ + 1]

\* off(event, callback): every subscription of the callback to the event
off(b, event, callback) ==
  [b EXCEPT !.events[event] = SelectSeq(@, LAMBDA it : it.cb # callback)]

\* offref(ref): the subscription made under ref, whatever its event
offrefByCallback(b, ref) ==
  LET cbs == UNION {{b.events[e][k].cb :
                       k \in {j \in DOMAIN b.events[e] : b.events[e][j].ref = ref}} :
                    e \in EvNames}
  IN [b EXCEPT !.events = [e \in EvNames |-> SelectSeq(b.events[e], LAMBDA it : it.cb \notin cbs)]]

offref(b, ref) ==
  [b EXCEPT !.events = [e \in EvNames |-> SelectSeq(b.events[e], LAMBDA it : it.ref # ref)]]

removeAllListeners(b) == [b EXCEPT !.events = NoEvents]

\* the handlers emit goes through: the copy it made when it started
dispatchLive(b) == b.events[b.event]

dispatchList(b) == b.handlers

\* what a handler may do while it runs
HandlerActs ==
  {[k |-> "nop", e |-> "e1", cb |-> "c1", ref |-> 0], [k |-> "throw", e |-> "e1", cb |-> "c1", ref |-> 0],
   [k |-> "removeAll", e |-> "e1", cb |-> "c1", ref |-> 0]}
  \cup {[k |-> "on", e |-> e, cb |-> c, ref |-> 0] : e \in EvNames, c \in Callbacks}
  \cup {[k |-> "off", e |-> e, cb |-> c, ref |-> 0] : e \in EvNames, c \in Callbacks}
  \cup {[k |-> "offref", e |-> "e1", cb |-> "c1", ref |-> r] : r \in Refs}

\* the refs whose offref has returned
Revoke(b, a) == IF a.k = "offref" THEN [b EXCEPT !.revoked = @ \cup {a.ref}] ELSE b

\* the manager after a call of its API
Apply(b, a) ==
  Revoke(CASE a.k = "on" -> on(b, a.e, a.cb)
           [] a.k = "off" -> off(b, a.e, a.cb)
           [] a.k = "offref" -> offref(b, a.ref)
           [] a.k = "removeAll" -> removeAllListeners(b)
           [] OTHER -> b, a)

\* an act a caller can make now: a ref it holds, an id that is left
Possible(b, a) ==
  /\ a.k = "on" => b.nextId < MaxSubs
  /\ a.k = "offref" => a.ref < b.nextId

BusInit ==
  [events |-> NoEvents, nextId |-> 0,
   status |-> "idle", event |-> "e1", handlers |-> <<>>, pos |-> 0, called |-> <<>>,
   revoked |-> {}, startId |-> 0, startRevoked |-> {}, emits |-> 0,
   op |-> "init", act |-> [k |-> "nop", e |-> "e1", cb |-> "c1", ref |-> 0]]

\* on, off, offref or removeAllListeners, called while no emit is under way
BusCall(a) ==
  /\ bus.status # "running"
  /\ a.k \notin {"nop", "throw"}
  /\ Possible(bus, a)
  /\ bus' = [Apply(bus, a) EXCEPT !.op = a.k, !.act = a]
  /\ UNCHANGED <<storeVars, srch, pf>>

\* emit(event, ...) up to its first handler: without a handler it returns
BusEmit(e) ==
  /\ bus.status # "running"
  /\ bus.emits < MaxEmits
  /\ bus' = [bus EXCEPT !.emits = @ + 1, !.op = "emit", !.event = e,
                        !.handlers = bus.events[e], !.pos = 1, !.called = <<>>,
                        !.startId = bus.nextId, !.startRevoked = bus.revoked,
                        !.status = IF bus.events[e] = <<>> THEN "returned" ELSE "running"]
  /\ UNCHANGED <<storeVars, srch, pf>>

\* emit calls its next handler, which does a and returns or throws; after
\* the last handler, or the throw, emit is over
BusDeliver(a) ==
  /\ bus.status = "running"
  /\ Possible(bus, a)
  /\ bus.pos <= Len(dispatchList(bus))
  /\ LET h == dispatchList(bus)[bus.pos]
         b == Apply([bus EXCEPT !.called = Append(@, h), !.pos = @ + 1], a)
     IN bus' = [b EXCEPT !.op = "deliver", !.act = a,
                         !.status = IF a.k = "throw" THEN "threw"
                                    ELSE IF b.pos > Len(dispatchList(b)) THEN "returned"
                                    ELSE "running"]
  /\ UNCHANGED <<storeVars, srch, pf>>

\* --------------------------------------------------------- OccurrenceSearch
\* Texts are sequences of characters here: a title is the text of its
\* tokens, "sp" being one blank.
Chars(tok) ==
  CASE tok = "a" -> <<"a">>
    [] tok = "b" -> <<"B">>
    [] tok = "untitled" -> <<"u", "n", "t", "i", "t", "l", "e", "d">>
    [] tok = "sp" -> <<" ">>
    [] OTHER -> <<"0">>

RECURSIVE TitleChars(_)
TitleChars(title) ==
  IF title = <<>> THEN <<>> ELSE Chars(Head(title)) \o TitleChars(Tail(title))

\* String.toLowerCase
LowerChar(c) == CASE c = "A" -> "a" [] c = "B" -> "b" [] OTHER -> c

toLowerCase(str) == [i \in DOMAIN str |-> LowerChar(str[i])]

\* String.includes and String.startsWith
includes(str, q) ==
  \E i \in 1..(Len(str) + 1) : i + Len(q) - 1 <= Len(str) /\ SubSeq(str, i, i + Len(q) - 1) = q

startsWith(str, q) == Len(q) <= Len(str) /\ SubSeq(str, 1, Len(q)) = q

\* str.split(/\s+/): the pieces between the runs of blanks (an empty piece
\* before a leading run and after a trailing one)
RECURSIVE SplitWords(_, _)
SplitWords(str, cur) ==
  IF str = <<>> THEN <<cur>>
  ELSE IF Head(str) = " "
       THEN IF Len(str) > 1 /\ str[2] = " " THEN SplitWords(Tail(str), cur)
            ELSE <<cur>> \o SplitWords(Tail(str), <<>>)
       ELSE SplitWords(Tail(str), Append(cur, Head(str)))

Min2(x, y) == IF x <= y THEN x ELSE y

\* levenshteinDistance(a, b): the entry matrix[b.length][a.length]
RECURSIVE levenshteinDistance(_, _)
levenshteinDistance(a, b) ==
  IF Len(a) = 0 THEN Len(b)
  ELSE IF Len(b) = 0 THEN Len(a)
  ELSE LET a1 == SubSeq(a, 1, Len(a) - 1)
           b1 == SubSeq(b, 1, Len(b) - 1)
           cost == IF a[Len(a)] = b[Len(b)] THEN 0 ELSE 1
       IN Min2(Min2(levenshteinDistance(a1, b) + 1, levenshteinDistance(a, b1) + 1),
               levenshteinDistance(a1, b1) + cost)

\* matchesTitle(title, query), query in lower case already
matchesTitle(title, query) ==
  LET titleLower == toLowerCase(TitleChars(title))
      words == SplitWords(titleLower, <<>>)
  IN \/ includes(titleLower, query)
     \/ \E k \in DOMAIN words :
          startsWith(words[k], query) \/ levenshteinDistance(words[k], query) <= 2

\* Date.getTime() of a valid Date
getTime(d) == CASE d = "d1" -> 1 [] d = "d1s" -> 2 [] d = "d2" -> 3 [] OTHER -> 0

\* the options of a search: a text, a list or a path that is not given is
\* empty (given empty, it is treated as not given); the others say whether
\* they are given
Opts(query, tags, linksTo, hasToProcess, toProcess, sortOrder, hasLimit, limit, hasOffset, offset) ==
  [query |-> query, tags |-> tags, linksTo |-> linksTo,
   hasToProcess |-> hasToProcess, toProcess |-> toProcess, sortOrder |-> sortOrder,
   hasLimit |-> hasLimit, limit |-> limit, hasOffset |-> hasOffset, offset |-> offset]

NoOpts == Opts(<<>>, <<>>, NoPath, FALSE, FALSE, "", FALSE, 0, FALSE, 0)

\* the store a search reads: the map with its keys in insertion order (a
\* Map iterates in that order), the tag index, and the host's resolvedLinks
\* (source path -> the set of the paths it links to)
Store(m, order, idx, links) == [items |-> m, order |-> order, idx |-> idx, links |-> links]

\* searchByReverseLinks(targetPath)
searchByReverseLinksAll(st, targetPath) == DOMAIN st.items

searchByReverseLinks(st, targetPath) ==
  {q \in DOMAIN st.items : q \in DOMAIN st.links /\ targetPath \in st.links[q]}

\* searchByTags(tags): the union of the index entries of the tags
searchByTags(st, tags) ==
  IF Len(tags) = 0 THEN DOMAIN st.items
  ELSE UNION {IF tags[k] \in DOMAIN st.idx THEN st.idx[tags[k]] ELSE {} : k \in DOMAIN tags}

\* searchByTitle(query)
searchByTitle(st, query) ==
  {q \in DOMAIN st.items : matchesTitle(st.items[q].title, toLowerCase(query))}

\* search, lines 59-96: the records that pass the filters, in the order of
\* the map
filtered(st, o) ==
  LET c0 == st.order
      c1 == IF o.linksTo # NoPath
            THEN SelectSeq(c0, LAMBDA q : q \in searchByReverseLinks(st, o.linksTo)) ELSE c0
      c2 == IF Len(o.tags) > 0
            THEN SelectSeq(c1, LAMBDA q : q \in searchByTags(st, o.tags)) ELSE c1
      c3 == IF o.query # <<>>
            THEN SelectSeq(c2, LAMBDA q : q \in searchByTitle(st, o.query)) ELSE c2
      c4 == SelectSeq(c3, LAMBDA q : q \in DOMAIN st.items)
      results == [k \in DOMAIN c4 |-> st.items[c4[k]]]
  IN IF o.hasToProcess
     THEN SelectSeq(results, LAMBDA item : item.toProcess = o.toProcess)
     ELSE results

\* the comparison function of the sort, lines 100-104; NaN when a time is
\* NaN, which sort takes for 0
comparison(a, b, sortOrder) ==
  IF IsNaNTime(a.occurredAt) \/ IsNaNTime(b.occurredAt) THEN 0
  ELSE IF sortOrder = "desc" THEN getTime(b.occurredAt) - getTime(a.occurredAt)
  ELSE getTime(a.occurredAt) - getTime(b.occurredAt)

\* Array.prototype.sort is stable: an element goes before the first one it
\* is to precede
RECURSIVE InsertSorted(_, _, _)
InsertSorted(x, sorted, sortOrder) ==
  IF sorted = <<>> THEN <<x>>
  ELSE IF comparison(x, Head(sorted), sortOrder) < 0 THEN <<x>> \o sorted
  ELSE <<Head(sorted)>> \o InsertSorted(x, Tail(sorted), sortOrder)

RECURSIVE StableSort(_, _)
StableSort(list, sortOrder) ==
  IF list = <<>> THEN <<>>
  ELSE InsertSorted(list[Len(list)], StableSort(SubSeq(list, 1, Len(list) - 1), sortOrder),
                    sortOrder)

\* the orders of a list
Perms(list) ==
  {[k \in DOMAIN list |-> list[f[k]]] :
     f \in {g \in [DOMAIN list -> DOMAIN list] : \A i, j \in DOMAIN list : g[i] = g[j] => i = j}}

\* The comparison function is consistent unless an invalid Date, equal to
\* every Date, stands between two Dates that differ; when it is not, the
\* order sort leaves is implementation-defined: any order.
Consistent(list) ==
  ~ /\ \E k \in DOMAIN list : IsNaNTime(list[k].occurredAt)
    /\ \E i, j \in DOMAIN list :
          /\ ~IsNaNTime(list[i].occurredAt) /\ ~IsNaNTime(list[j].occurredAt)
          /\ list[i].occurredAt # list[j].occurredAt

SortOutcomes(list, sortOrder) ==
  IF Consistent(list) THEN {StableSort(list, sortOrder)} ELSE Perms(list)

\* options.limit || 100 and options.offset || 0
DefaultLimit == 100

limitOf(o) == IF o.hasLimit /\ o.limit # 0 THEN o.limit ELSE DefaultLimit

offsetOf(o) == IF o.hasOffset THEN o.offset ELSE 0

\* Array.slice(start, end) for 0 <= start <= end
slice(list, start, end) == SubSeq(list, start + 1, Min2(end, Len(list)))

\* search, lines 106-116, for one sorted list
paginate(sorted, o) ==
  [items |-> slice(sorted, offsetOf(o), offsetOf(o) + limitOf(o)),
   total |-> Len(sorted),
   hasMore |-> offsetOf(o) + limitOf(o) < Len(sorted)]

sortOrderOf(o) == IF o.sortOrder = "" THEN "desc" ELSE o.sortOrder

\* search(options): what it may return
search(st, o) ==
  {paginate(sorted, o) : sorted \in SortOutcomes(filtered(st, o), sortOrderOf(o))}

NoLinks == [q \in {} |-> {}]

\* the records there are to store, two of them of the same minute and
\* second, one without a valid date
Rec(file, base, occurredAt, toProcess, tags) ==
  [path |-> RootPath(base), file |-> file, title |-> removeDatePrefix(base),
   occurredAt |-> occurredAt, toProcess |-> toProcess, tags |-> tags, x |-> "none"]

SearchRecs ==
  {Rec(1, <<"s1", "sp", "a">>, "d1", FALSE, <<"t1">>),
   Rec(2, <<"s1", "sp", "b">>, "d1", TRUE, <<"t2">>),
   Rec(3, <<"s2", "sp", "untitled">>, "d2", FALSE, <<"t1", "t2">>),
   Rec(4, <<"b", "sp", "a">>, InvalidDate, TRUE, <<>>)}

\* a note outside the managed folder, and the note the links go to
OtherNote == MkPath(<<"Notes">>, <<"b">>)

LinkTarget == MkPath(<<"Notes">>, <<"a">>)

\* the link graphs the host may have
LinkGraphs ==
  {NoLinks,
   (RootPath(<<"s1", "sp", "a">>) :> {LinkTarget}) @@ (OtherNote :> {LinkTarget}),
   (RootPath(<<"s1", "sp", "b">>) :> {LinkTarget})
     @@ (RootPath(<<"s2", "sp", "untitled">>) :> {OtherNote, LinkTarget})
     @@ (RootPath(<<"s1", "sp", "a">>) :> {OtherNote})}

\* the searches a caller makes: the filters in every combination, and the
\* paging and the direction in every combination
SearchOpts ==
  {Opts(q, ts, l, tp[1], tp[2], "", FALSE, 0, FALSE, 0) :
     q \in {<<>>, <<"A">>}, ts \in {<<>>, <<"t1">>, <<"t2", "t1">>},
     l \in {NoPath, LinkTarget}, tp \in {<<FALSE, FALSE>>, <<TRUE, FALSE>>, <<TRUE, TRUE>>}}
  \cup
  {Opts(<<>>, <<>>, NoPath, FALSE, FALSE, so, lm[1], lm[2], os[1], os[2]) :
     so \in {"", "asc", "desc"},
     lm \in {<<FALSE, 0>>} \cup {<<TRUE, n>> : n \in 0..(MaxRecs - 1)},
     os \in {<<FALSE, 0>>} \cup {<<TRUE, n>> : n \in 0..(MaxRecs - 2)}}

\* ------------------------------------------- one file and its record
\* The file is Occurrences/<base>.md; cache is what the metadata cache
\* holds for it, has says whether the map holds a record under its path,
\* item is that record, and from is the cache the record was parsed from.
PfInit ==
  [op |-> "init", base |-> <<>>, cache |-> BlankFM("unready"), has |-> FALSE, item |-> NoItem,
   from |-> BlankFM("unready"), res |-> FALSE, name |-> <<>>, back |-> <<>>]

\* --------------------------------------------------------------- the start
SrchInit ==
  [op |-> "init", order |-> <<>>, links |-> NoLinks, opts |-> NoOpts,
   res |-> [items |-> <<>>, total |-> 0, hasMore |-> FALSE]]

Init ==
  /\ vault \in InitVaults
  /\ items = EmptyMap
  /\ tagIndex = EmptyIndex
  /\ isLoading = FALSE
  /\ tasks = <<>>
  /\ last = Last("init", NoPath, <<>>, <<>>, "")
  /\ ops = 0
  /\ loads = 0
  /\ bus = BusInit
  /\ srch = SrchInit
  /\ pf = PfInit

\* ------------------------------------------------------------------ load
\* the single-flight guard of load (line 359)
loadGuardOff(loading) == FALSE

loadGuard(loading) == loading

\* load(): the guard, the clearing and the first processFile call
LoadCall ==
  /\ loads < MaxLoads
  /\ PollQuiet
  /\ loads' = loads + 1
  /\ UNCHANGED <<vault, ops>>
  /\ IF loadGuard(isLoading)
     THEN /\ UNCHANGED <<items, tagIndex, isLoading, tasks>>
          /\ last' = Last("load", NoPath, <<>>, <<>>, "guarded")
     ELSE LET files == getRelevantFiles(vault) IN
          /\ items' = EmptyMap
          /\ tagIndex' = EmptyIndex
          /\ IF files = <<>>
             THEN /\ isLoading' = FALSE
                  /\ tasks' = tasks
                  /\ last' = Last("load", NoPath, <<Ev("loaded", NoPath, NoItem)>>, <<>>, "done")
             ELSE /\ Len(tasks) < MaxTasks
                  /\ isLoading' = TRUE
                  /\ tasks' = Append(tasks,
                       Task("load", "load.step", Head(files), processFile(vault, Head(files)),
                            Tail(files), NoPath, 0, FALSE, NoArg))
                  /\ last' = Last("load", NoPath, <<>>, <<>>, "started")
  /\ UNCHANGED otherVars

\* load() resumed with a parsed record: it is stored and indexed, then the
\* next file is parsed, or the load ends
LoadStep(i) ==
  LET t == tasks[i] IN
  /\ t.pc = "load.step"
  /\ items' = MapSet(items, vault[t.file].path, t.item)
  /\ tagIndex' = updateIndexes(tagIndex, t.item, "add")
  /\ IF t.todo = <<>>
     THEN /\ isLoading' = FALSE
          /\ tasks' = RemoveAt(tasks, i)
          /\ last' = Last("load.step", vault[t.file].path, <<Ev("loaded", NoPath, NoItem)>>, <<>>, "done")
     ELSE /\ isLoading' = isLoading
          /\ tasks' = [tasks EXCEPT ![i] =
                [t EXCEPT !.file = Head(t.todo), !.item = processFile(vault, Head(t.todo)),
                          !.todo = Tail(t.todo)]]
          /\ last' = Last("load.step", vault[t.file].path, <<>>, <<>>, "more")
  /\ UNCHANGED <<vault, ops, loads>>
  /\ UNCHANGED otherVars

\* the getter isLoaded: !this.isLoading && this.items.size > 0
isLoaded(loading, m) == ~loading /\ Cardinality(DOMAIN m) > 0

\* ---------------------------------------------------------- add, remove
\* add(file), called from outside
AddCall(f) ==
  /\ EnvMay
  /\ vault[f].st # "none"
  /\ Len(tasks) < MaxTasks
  /\ ops' = ops + 1
  /\ tasks' = tasks \o addTasks(vault, f)
  /\ last' = Last("add", vault[f].path, <<>>, <<>>,
                  IF isRelevantFile(vault[f].path) THEN "started" ELSE "not-relevant")
  /\ UNCHANGED <<vault, items, tagIndex, isLoading, loads>>
  /\ UNCHANGED otherVars

\* the callback of processFile(file).then(...) in add
AddThen(i) ==
  LET t == tasks[i] IN
  /\ t.pc = "add.then"
  /\ items' = MapSet(items, vault[t.file].path, t.item)
  /\ tagIndex' = updateIndexes(tagIndex, t.item, "add")
  /\ tasks' = RemoveAt(tasks, i)
  /\ last' = Last("add.then", vault[t.file].path, <<Ev("item-added", t.item.path, t.item)>>, <<>>, "done")
  /\ UNCHANGED <<vault, isLoading, ops, loads>>
  /\ UNCHANGED otherVars

\* the paths a caller may know: those of the files there are or were, and
\* the keys of the map
KnownPaths == {vault[f].path : f \in {g \in FileIds : vault[g].st # "none"}} \cup DOMAIN items

\* remove(path), called from outside
RemoveCall(p) ==
  LET s == remove(St(items, tagIndex, <<>>), p) IN
  /\ EnvMay
  /\ ops' = ops + 1
  /\ items' = s.items
  /\ tagIndex' = s.idx
  /\ last' = Last("remove", p, s.ev, <<>>, IF p \in DOMAIN items THEN "done" ELSE "not-found")
  /\ UNCHANGED <<vault, isLoading, tasks, loads>>
  /\ UNCHANGED otherVars

\* ------------------------------------------------------- waitForCacheAndAdd
\* the timer of waitForCacheAndAdd fires: the next poll, or, after
\* maxAttempts polls, the add that is made anyway
PollTickDrops(i) ==
  LET t == tasks[i] IN
  /\ t.pc = "poll.wait"
  /\ MicroIdle
  /\ \A j \in DOMAIN tasks : j # i => Quiet(tasks[j])
  /\ IF t.n < maxAttempts /\ ~CacheReady(getFileCache(vault, t.file))
     THEN /\ tasks' = [tasks EXCEPT ![i] = [t EXCEPT !.n = t.n + 1]]
          /\ last' = Last("poll", vault[t.file].path, <<>>, <<>>, "wait")
     ELSE /\ tasks' = RemoveAt(tasks, i)
                        \o (IF t.n < maxAttempts THEN addTasks(vault, t.file) ELSE <<>>)
          /\ last' = Last("poll", vault[t.file].path, <<>>, <<>>,
                          IF t.n < maxAttempts THEN "ready" ELSE "gave-up")
  /\ UNCHANGED <<vault, items, tagIndex, isLoading, ops, loads>>
  /\ UNCHANGED otherVars

PollTick(i) ==
  LET t == tasks[i] IN
  /\ t.pc = "poll.wait"
  /\ MicroIdle
  /\ \A j \in DOMAIN tasks : j # i => Quiet(tasks[j])
  /\ IF t.n < maxAttempts /\ ~CacheReady(getFileCache(vault, t.file))
     THEN /\ tasks' = [tasks EXCEPT ![i] = [t EXCEPT !.n = t.n + 1]]
          /\ last' = Last("poll", vault[t.file].path, <<>>, <<>>, "wait")
     ELSE /\ tasks' = RemoveAt(tasks, i) \o addTasks(vault, t.file)
          /\ last' = Last("poll", vault[t.file].path, <<>>, <<>>,
                          IF t.n < maxAttempts THEN "ready" ELSE "gave-up")
  /\ UNCHANGED <<vault, items, tagIndex, isLoading, ops, loads>>
  /\ UNCHANGED otherVars

\* ------------------------------------------------- the changed handler
HostCall(call, f, path) == [call |-> call, file |-> f, path |-> path]

\* resumed with the result of generateFileName: handleFileRename up to its
\* await of the host's rename, or hasRelevantChanges
ChgGen(i) ==
  LET t == tasks[i]
      f == t.file
      cur == vault[f].path
      newFilePath == [dir |-> cur.dir, base |-> t.path.base, ext |-> "md"]
  IN
  /\ t.pc = "chg.gen"
  /\ UNCHANGED <<vault, isLoading, ops, loads>>
  /\ IF t.b /\ t.path.base # cur.base
     THEN IF getAbstractFileByPath(vault, newFilePath)
          THEN /\ tasks' = RemoveAt(tasks, i)
               /\ last' = Last("chg.gen", cur, <<>>, <<>>, "target-exists")
               /\ UNCHANGED <<items, tagIndex>>
          ELSE LET s == remove(St(items, tagIndex, <<>>), cur) IN
               /\ items' = s.items
               /\ tagIndex' = s.idx
               /\ tasks' = [tasks EXCEPT ![i] = [t EXCEPT !.pc = "chg.rename", !.path = newFilePath]]
               /\ last' = Last("chg.gen", cur, s.ev, <<HostCall("rename", f, newFilePath)>>, "renaming")
     ELSE /\ tasks' = [tasks EXCEPT ![i] =
                [t EXCEPT !.pc = "chg.has", !.b = hasRelevantChanges(vault, items, f)]]
          /\ last' = Last("chg.gen", cur, <<>>, <<>>, "checking")
          /\ UNCHANGED <<items, tagIndex>>
  /\ UNCHANGED otherVars

\* resumed with the result of hasRelevantChanges
ChgHas(i) ==
  LET t == tasks[i] IN
  /\ t.pc = "chg.has"
  /\ IF t.b
     THEN /\ tasks' = [tasks EXCEPT ![i] =
                [t EXCEPT !.pc = "chg.proc", !.item = processFile(vault, t.file)]]
          /\ last' = Last("chg.has", vault[t.file].path, <<>>, <<>>, "changed")
     ELSE /\ tasks' = RemoveAt(tasks, i)
          /\ last' = Last("chg.has", vault[t.file].path, <<>>, <<>>, "unchanged")
  /\ UNCHANGED <<vault, items, tagIndex, isLoading, ops, loads>>
  /\ UNCHANGED otherVars

\* the index update of the changed handler (lines 312-314): the removal is
\* made with the new record
changedIndexUpdate(idx, old, item) ==
  updateIndexes(updateIndexes(idx, item, "remove"), item, "add")

\* resumed with the record of processFile: it replaces the stored one
ChgProc(i) ==
  LET t == tasks[i]
      key == vault[t.file].path
  IN
  /\ t.pc = "chg.proc"
  /\ items' = MapSet(items, key, t.item)
  /\ tagIndex' = changedIndexUpdate(tagIndex, IF key \in DOMAIN items THEN items[key] ELSE NoItem, t.item)
  /\ tasks' = RemoveAt(tasks, i)
  /\ last' = Last("chg.proc", key, <<Ev("item-updated", t.item.path, t.item)>>, <<>>, "updated")
  /\ UNCHANGED <<vault, isLoading, ops, loads>>
  /\ UNCHANGED otherVars

\* ------------------------------------------------------ host notifications
\* the vault's "rename" notification
onRename(v, s, f, oldPath) ==
  [s |-> IF isRelevantFile(oldPath) THEN remove(s, oldPath) ELSE s,
   tasks |-> IF isRelevantFile(v[f].path) THEN waitForCacheAndAddTasks(v, f) ELSE <<>>]

\* the vault's "delete" notification
onDeleteIgnored(s, path) == s

onDelete(s, path) == IF isRelevantFile(path) THEN remove(s, path) ELSE s

UnusedIds == {f \in FileIds : vault[f].st = "none"}

\* the front matter a file may be given from outside
Edits ==
  { MkFM("d1", TRUE, TagArr(<<"t1">>), "none"),
    MkFM("d1", FALSE, TagArr(<<"t2">>), "none"),
    MkFM("d2", FALSE, TagArr(<<"t1">>), "none"),
    MkFM("bad", FALSE, NoTags, "none") }

\* the paths a file may be created at or renamed to from outside
HostPaths ==
  { RootPath(<<"s1", "sp", "a">>), RootPath(<<"b">>), MkPath(<<"Notes">>, <<"a">>) }

\* a file appears in the vault; its metadata is not cached yet
HostCreate(p, fm) ==
  /\ EnvMay
  /\ HostMay
  /\ UnusedIds # {}
  /\ ~getAbstractFileByPath(vault, p)
  /\ LET f == CHOOSE g \in UnusedIds : \A h \in UnusedIds : g <= h
         v == [vault EXCEPT ![f] = [st |-> "live", path |-> p, disk |-> fm, cache |-> BlankFM("unready")]]
         new == onCreate(v, f)
     IN /\ Len(tasks) + Len(new) <= MaxTasks
        /\ vault' = v
        /\ tasks' = tasks \o new
        /\ last' = Last("host.create", p, <<>>, <<>>, "")
  /\ ops' = ops + 1
  /\ UNCHANGED <<items, tagIndex, isLoading, loads>>
  /\ UNCHANGED otherVars

\* the metadata cache catches up with the file and notifies "changed"
HostRefresh(f) ==
  /\ HostMay
  /\ Live(f)
  /\ vault[f].cache # vault[f].disk
  /\ LET v == [vault EXCEPT ![f].cache = vault[f].disk]
         new == onChanged(v, f)
     IN /\ Len(tasks) + Len(new) <= MaxTasks
        /\ vault' = v
        /\ tasks' = tasks \o new
        /\ last' = Last("host.changed", vault[f].path, <<>>, <<>>, "refresh")
  /\ UNCHANGED <<items, tagIndex, isLoading, ops, loads>>
  /\ UNCHANGED otherVars

\* the metadata cache notifies "changed" for a file whose front matter is
\* what it was
HostTouch(f) ==
  /\ EnvMay
  /\ HostMay
  /\ Live(f)
  /\ vault[f].cache = vault[f].disk
  /\ LET new == onChanged(vault, f)
     IN /\ Len(tasks) + Len(new) <= MaxTasks
        /\ tasks' = tasks \o new
        /\ last' = Last("host.changed", vault[f].path, <<>>, <<>>, "touch")
  /\ ops' = ops + 1
  /\ UNCHANGED <<vault, items, tagIndex, isLoading, loads>>
  /\ UNCHANGED otherVars

\* the file's front matter is edited from outside; the cache follows and
\* notifies "changed"
HostEdit(f, fm) ==
  /\ EnvMay
  /\ HostMay
  /\ Live(f)
  /\ fm # vault[f].disk
  /\ LET v == [vault EXCEPT ![f].disk = fm, ![f].cache = fm]
         new == onChanged(v, f)
     IN /\ Len(tasks) + Len(new) <= MaxTasks
        /\ vault' = v
        /\ tasks' = tasks \o new
        /\ last' = Last("host.changed", vault[f].path, <<>>, <<>>, "edit")
  /\ ops' = ops + 1
  /\ UNCHANGED <<items, tagIndex, isLoading, loads>>
  /\ UNCHANGED otherVars

Gone(path) == [st |-> "gone", path |-> path, disk |-> BlankFM("nofm"), cache |-> BlankFM("unready")]

\* the file is deleted from outside
HostDelete(f) ==
  /\ EnvMay
  /\ HostMay
  /\ Live(f)
  /\ LET s == onDelete(St(items, tagIndex, <<>>), vault[f].path)
     IN /\ items' = s.items
        /\ tagIndex' = s.idx
        /\ last' = Last("host.delete", vault[f].path, s.ev, <<>>, "")
  /\ vault' = [vault EXCEPT ![f] = Gone(vault[f].path)]
  /\ ops' = ops + 1
  /\ UNCHANGED <<isLoading, tasks, loads>>
  /\ UNCHANGED otherVars

\* the host after moving file f to path p: the cache entry follows the file
\* or has to be rebuilt
Renamed(v, f, p, keep) ==
  [v EXCEPT ![f].path = p, ![f].cache = IF keep THEN v[f].cache ELSE BlankFM("unready")]

\* the file is renamed from outside
HostRename(f, p, keep) ==
  /\ EnvMay
  /\ HostMay
  /\ Live(f)
  /\ ~getAbstractFileByPath(vault, p)
  /\ LET v == Renamed(vault, f, p, keep)
         r == onRename(v, St(items, tagIndex, <<>>), f, vault[f].path)
     IN /\ Len(tasks) + Len(r.tasks) <= MaxTasks
        /\ vault' = v
        /\ items' = r.s.items
        /\ tagIndex' = r.s.idx
        /\ tasks' = tasks \o r.tasks
        /\ last' = Last("host.rename", vault[f].path, r.s.ev, <<>>, "")
  /\ ops' = ops + 1
  /\ UNCHANGED <<isLoading, loads>>
  /\ UNCHANGED otherVars

\* the host can carry out the rename a task waits for
CanRename(f, p) ==
  /\ Live(f)
  /\ ~getAbstractFileByPath(vault, p)
  /\ Len(p.base) <= MaxNameLen

\* fileManager.renameFile, requested by handleFileRename, succeeds: the
\* "rename" notification is handled, then handleFileRename and the changed
\* handler return
ChgRenameDone(i) ==
  LET t == tasks[i]
      f == t.file
      v == Renamed(vault, f, t.path, TRUE)
      r == onRename(v, St(items, tagIndex, <<>>), f, vault[f].path)
  IN
  /\ t.pc = "chg.rename"
  /\ HostMay
  /\ CanRename(f, t.path)
  /\ vault' = v
  /\ items' = r.s.items
  /\ tagIndex' = r.s.idx
  /\ tasks' = RemoveAt(tasks, i) \o r.tasks
  /\ last' = Last("chg.rename", vault[f].path, r.s.ev, <<>>, "renamed")
  /\ UNCHANGED <<isLoading, ops, loads>>
  /\ UNCHANGED otherVars

\* fileManager.renameFile fails: the catch block calls add(file)
ChgRenameFailNoRestore(i) ==
  LET t == tasks[i] IN
  /\ t.pc = "chg.rename"
  /\ HostMay
  /\ tasks' = RemoveAt(tasks, i)
  /\ last' = Last("chg.rename", vault[t.file].path, <<>>, <<>>, "rename-failed")
  /\ UNCHANGED <<vault, items, tagIndex, isLoading, ops, loads>>
  /\ UNCHANGED otherVars

ChgRenameFail(i) ==
  LET t == tasks[i] IN
  /\ t.pc = "chg.rename"
  /\ HostMay
  /\ tasks' = RemoveAt(tasks, i) \o addTasks(vault, t.file)
  /\ last' = Last("chg.rename", vault[t.file].path, <<>>, <<>>, "rename-failed")
  /\ UNCHANGED <<vault, items, tagIndex, isLoading, ops, loads>>
  /\ UNCHANGED otherVars

\* ---------------------------------------------------------------- update
\* The argument of update: a title (<<>> when none is given) and the
\* properties given (set* says which).
Upd(title, setDate, occurredAt, setTags, tags, setFlag, toProcess) ==
  [title |-> title, setDate |-> setDate, occurredAt |-> occurredAt,
   setTags |-> setTags, tags |-> tags, setFlag |-> setFlag, toProcess |-> toProcess]

Updates ==
  { Upd(<<"b">>, FALSE, InvalidDate, FALSE, <<>>, FALSE, FALSE),
    Upd(<<>>, TRUE, "d2", FALSE, <<>>, FALSE, FALSE),
    Upd(<<>>, FALSE, InvalidDate, TRUE, <<"t2">>, FALSE, FALSE) }

\* { ...currentOccurrence.properties, ...updates.properties }
mergeProperties(cur, u) ==
  [occurredAt |-> IF u.setDate THEN u.occurredAt ELSE cur.occurredAt,
   toProcess |-> IF u.setFlag THEN u.toProcess ELSE cur.toProcess,
   tags |-> IF u.setTags THEN u.tags ELSE cur.tags,
   x |-> cur.x]

\* toISOStringWithTimezone throws for an invalid Date, so that
\* applyFrontmatterUpdates writes nothing
WriteThrows(props) == props.occurredAt = InvalidDate

\* applyFrontmatterUpdates with OCCURRENCE_FRONTMATTER_MAPPING: the date as
\* its ISO text, the flag as it is, an empty tag array deleted, another key
\* written when the properties hold it
applyFrontmatterUpdates(fm, props) ==
  MkFM(props.occurredAt, props.toProcess,
       IF props.tags = <<>> THEN NoTags ELSE TagArr(props.tags),
       IF props.x # "none" THEN props.x ELSE fm.x)

\* the path update renames the file to
updatePath(cur, u) ==
  RootPath(applyDatePrefix(IF u.title # <<>> THEN u.title ELSE cur.title,
                           IF u.setDate THEN u.occurredAt ELSE cur.occurredAt))

\* the target of update's rename is another path, and is taken
updateConflictIgnored(v, path, newPath) == FALSE

updateConflict(v, path, newPath) == newPath # path /\ getAbstractFileByPath(v, newPath)

\* update(file, updates) up to its first await
UpdateCall(f, u) ==
  LET path == vault[f].path
      cur == items[path]
      newPath == updatePath(cur, u)
      wantsRename == u.title # <<>> \/ u.setDate
  IN
  /\ EnvMay
  /\ vault[f].st # "none"
  /\ ops' = ops + 1
  /\ UNCHANGED <<vault, items, tagIndex, isLoading, loads>>
  /\ IF path \notin DOMAIN items
     THEN /\ tasks' = tasks
          /\ last' = LastOf("update", path, <<>>, <<>>, "not-found", u)
     ELSE IF wantsRename /\ updateConflict(vault, path, newPath)
     THEN /\ tasks' = tasks
          /\ last' = LastOf("update", path, <<>>, <<>>, "conflict", u)
     ELSE IF wantsRename /\ newPath # path
     THEN /\ Len(tasks) < MaxTasks
          /\ tasks' = Append(tasks, Task("upd", "upd.rename", f, cur, <<>>, newPath, 0, FALSE, u))
          /\ last' = LastOf("update", path, <<>>, <<HostCall("rename", f, newPath)>>, "renaming", u)
     ELSE /\ Len(tasks) < MaxTasks
          /\ tasks' = Append(tasks, Task("upd", "upd.write", f, cur, <<>>, NoPath, 0, FALSE, u))
          /\ last' = LastOf("update", path, <<>>, <<HostCall("write", f, path)>>, "writing", u)
  /\ UNCHANGED otherVars

\* the rename update asked for succeeds: the "rename" notification is
\* handled, then update goes on to processFrontMatter
UpdRenameDone(i) ==
  LET t == tasks[i]
      f == t.file
      v == Renamed(vault, f, t.path, TRUE)
      r == onRename(v, St(items, tagIndex, <<>>), f, vault[f].path)
  IN
  /\ t.pc = "upd.rename"
  /\ HostMay
  /\ CanRename(f, t.path)
  /\ Len(tasks) + Len(r.tasks) <= MaxTasks
  /\ vault' = v
  /\ items' = r.s.items
  /\ tagIndex' = r.s.idx
  /\ tasks' = [tasks EXCEPT ![i] = [t EXCEPT !.pc = "upd.write"]] \o r.tasks
  /\ last' = Last("upd.rename", vault[f].path, r.s.ev, <<HostCall("write", f, t.path)>>, "renamed")
  /\ UNCHANGED <<isLoading, ops, loads>>
  /\ UNCHANGED otherVars

\* the rename fails: update throws
UpdRenameFail(i) ==
  LET t == tasks[i] IN
  /\ t.pc = "upd.rename"
  /\ HostMay
  /\ tasks' = RemoveAt(tasks, i)
  /\ last' = Last("upd.rename", vault[t.file].path, <<>>, <<>>, "error")
  /\ UNCHANGED <<vault, items, tagIndex, isLoading, ops, loads>>
  /\ UNCHANGED otherVars

\* processFrontMatter has written the merged properties; update goes on to
\* processFile, which reads the metadata cache
UpdWriteDone(i) ==
  LET t == tasks[i]
      f == t.file
      props == mergeProperties(t.item, t.arg)
      v == [vault EXCEPT ![f].disk = applyFrontmatterUpdates(vault[f].disk, props)]
  IN
  /\ t.pc = "upd.write"
  /\ HostMay
  /\ Live(f)
  /\ ~WriteThrows(props)
  /\ vault' = v
  /\ tasks' = [tasks EXCEPT ![i] = [t EXCEPT !.pc = "upd.proc", !.item = processFile(v, f)]]
  /\ last' = Last("upd.write", vault[f].path, <<>>, <<>>, "written")
  /\ UNCHANGED <<items, tagIndex, isLoading, ops, loads>>
  /\ UNCHANGED otherVars

\* processFrontMatter fails, or its callback throws: update throws
UpdWriteFail(i) ==
  LET t == tasks[i] IN
  /\ t.pc = "upd.write"
  /\ HostMay
  /\ tasks' = RemoveAt(tasks, i)
  /\ last' = Last("upd.write", vault[t.file].path, <<>>, <<>>, "error")
  /\ UNCHANGED <<vault, items, tagIndex, isLoading, ops, loads>>
  /\ UNCHANGED otherVars

\* update resumed with the record of processFile: it is stored (line 764)
UpdProc(i) ==
  LET t == tasks[i] IN
  /\ t.pc = "upd.proc"
  /\ items' = MapSet(items, vault[t.file].path, t.item)
  /\ tasks' = RemoveAt(tasks, i)
  /\ last' = Last("upd.proc", vault[t.file].path, <<>>, <<>>, "ok")
  /\ UNCHANGED <<vault, tagIndex, isLoading, ops, loads>>
  /\ UNCHANGED otherVars

\* ---------------------------------------------------------------- create
\* The argument of create: a title (<<>> when none) and, when hasProps,
\* the properties.
Creates ==
  { [title |-> <<"a">>, hasProps |-> TRUE, occurredAt |-> "d1", toProcess |-> FALSE, tags |-> <<"t1">>],
    [title |-> <<>>, hasProps |-> FALSE, occurredAt |-> InvalidDate, toProcess |-> FALSE, tags |-> <<>>] }

\* new Date() at line 642 and, later, at line 663
Now1 == "d1"

Now2 == "d1s"

\* the path create gives the file
createPath(d) ==
  RootPath(applyDatePrefix(IF d.title # <<>> THEN d.title ELSE <<"untitled">>,
                           IF d.hasProps THEN d.occurredAt ELSE Now1))

\* occurrenceData.properties || { occurredAt: new Date(), toProcess: true, .. }
createProperties(d) ==
  IF d.hasProps
  THEN [occurredAt |-> d.occurredAt, toProcess |-> d.toProcess, tags |-> d.tags, x |-> "none"]
  ELSE [occurredAt |-> Now2, toProcess |-> TRUE, tags |-> <<>>, x |-> "none"]

\* an entity already exists at the path create computed
createDuplicateIgnored(v, filePath) == FALSE

createDuplicate(v, filePath) == getAbstractFileByPath(v, filePath)

\* the argument of create, as a step reports it and a task keeps it
createArg(d) ==
  [NoArg EXCEPT !.title = d.title, !.setDate = d.hasProps, !.occurredAt = d.occurredAt,
                !.toProcess = d.toProcess, !.tags = d.tags]

\* create(occurrenceData) up to its first await
CreateCall(d) ==
  LET filePath == createPath(d) IN
  /\ EnvMay
  /\ ops' = ops + 1
  /\ UNCHANGED <<vault, items, tagIndex, isLoading, loads>>
  /\ IF createDuplicate(vault, filePath)
     THEN /\ tasks' = tasks
          /\ last' = LastOf("create", filePath, <<>>, <<>>, "duplicate", createArg(d))
     ELSE /\ Len(tasks) < MaxTasks
          /\ tasks' = Append(tasks, Task("create", "create.create", 0, NoItem, <<>>, filePath, 0, FALSE,
                                         createArg(d)))
          /\ last' = LastOf("create", filePath, <<>>, <<HostCall("create", 0, filePath)>>, "creating",
                           createArg(d))
  /\ UNCHANGED otherVars

\* vault.create has made the empty file: the "create" notification is
\* handled, then create goes on to processFrontMatter
CreateFileDone(i) ==
  LET t == tasks[i]
      f == CHOOSE g \in UnusedIds : \A h \in UnusedIds : g <= h
      v == [vault EXCEPT ![f] = [st |-> "live", path |-> t.path, disk |-> BlankFM("nofm"),
                                  cache |-> BlankFM("unready")]]
      new == onCreate(v, f)
  IN
  /\ t.pc = "create.create"
  /\ HostMay
  /\ UnusedIds # {}
  /\ ~getAbstractFileByPath(vault, t.path)
  /\ Len(tasks) + Len(new) <= MaxTasks
  /\ vault' = v
  /\ tasks' = [tasks EXCEPT ![i] = [t EXCEPT !.pc = "create.write", !.file = f]] \o new
  /\ last' = Last("create.create", t.path, <<>>, <<HostCall("write", f, t.path)>>, "created")
  /\ UNCHANGED <<items, tagIndex, isLoading, ops, loads>>
  /\ UNCHANGED otherVars

\* vault.create fails: create throws
CreateFileFail(i) ==
  LET t == tasks[i] IN
  /\ t.pc = "create.create"
  /\ HostMay
  /\ tasks' = RemoveAt(tasks, i)
  /\ last' = Last("create.create", t.path, <<>>, <<>>, "error")
  /\ UNCHANGED <<vault, items, tagIndex, isLoading, ops, loads>>
  /\ UNCHANGED otherVars

\* processFrontMatter has written the initial fields: create returns
CreateWriteDone(i) ==
  LET t == tasks[i]
      f == t.file
      props == createProperties([title |-> t.arg.title, hasProps |-> t.arg.setDate,
                                 occurredAt |-> t.arg.occurredAt, toProcess |-> t.arg.toProcess,
                                 tags |-> t.arg.tags])
  IN
  /\ t.pc = "create.write"
  /\ HostMay
  /\ Live(f)
  /\ ~WriteThrows(props)
  /\ vault' = [vault EXCEPT ![f].disk = applyFrontmatterUpdates(vault[f].disk, props)]
  /\ tasks' = RemoveAt(tasks, i)
  /\ last' = Last("create.write", vault[f].path, <<>>, <<>>, "ok")
  /\ UNCHANGED <<items, tagIndex, isLoading, ops, loads>>
  /\ UNCHANGED otherVars

\* processFrontMatter fails: create throws
CreateWriteFail(i) ==
  LET t == tasks[i] IN
  /\ t.pc = "create.write"
  /\ HostMay
  /\ tasks' = RemoveAt(tasks, i)
  /\ last' = Last("create.write", vault[t.file].path, <<>>, <<>>, "error")
  /\ UNCHANGED <<vault, items, tagIndex, isLoading, ops, loads>>
  /\ UNCHANGED otherVars

\* ---------------------------------------------------------------- delete
\* delete(filePath) up to its await of vault.trash
DeleteCallUnchecked(p) ==
  /\ EnvMay
  /\ ops' = ops + 1
  /\ UNCHANGED <<vault, items, tagIndex, isLoading, loads>>
  /\ Len(tasks) < MaxTasks
  /\ LET f == IF p \in DOMAIN items THEN items[p].file ELSE 1 IN
     /\ tasks' = Append(tasks, Task("del", "del.trash", f, NoItem, <<>>, p, 0, FALSE, NoArg))
     /\ last' = Last("delete", p, <<>>, <<HostCall("trash", f, p)>>, "trashing")
  /\ UNCHANGED otherVars

DeleteCall(p) ==
  /\ EnvMay
  /\ ops' = ops + 1
  /\ UNCHANGED <<vault, items, tagIndex, isLoading, loads>>
  /\ IF p \notin DOMAIN items
     THEN /\ tasks' = tasks
          /\ last' = Last("delete", p, <<>>, <<>>, "not-found")
     ELSE /\ Len(tasks) < MaxTasks
          /\ tasks' = Append(tasks, Task("del", "del.trash", items[p].file, NoItem, <<>>, p, 0, FALSE, NoArg))
          /\ last' = Last("delete", p, <<>>, <<HostCall("trash", items[p].file, p)>>, "trashing")
  /\ UNCHANGED otherVars

\* vault.trash has moved the file to the trash and the "delete"
\* notification is handled; delete resumes after it
TrashDone(i) ==
  LET t == tasks[i]
      f == t.file
      s == onDelete(St(items, tagIndex, <<>>), vault[f].path)
  IN
  /\ t.pc = "del.trash"
  /\ HostMay
  /\ Live(f)
  /\ vault' = [vault EXCEPT ![f] = Gone(vault[f].path)]
  /\ items' = s.items
  /\ tagIndex' = s.idx
  /\ tasks' = [tasks EXCEPT ![i] = [t EXCEPT !.pc = "del.ret"]]
  /\ last' = Last("del.trash", vault[f].path, s.ev, <<>>, "ok")
  /\ UNCHANGED <<isLoading, ops, loads>>
  /\ UNCHANGED otherVars

\* delete resumes after its await of vault.trash and returns
DelRet(i) ==
  LET t == tasks[i] IN
  /\ t.pc = "del.ret"
  /\ tasks' = RemoveAt(tasks, i)
  /\ last' = Last("del.ret", t.path, <<>>, <<>>, "ok")
  /\ UNCHANGED <<vault, items, tagIndex, isLoading, ops, loads>>
  /\ UNCHANGED otherVars

\* vault.trash fails: delete throws
TrashFail(i) ==
  LET t == tasks[i] IN
  /\ t.pc = "del.trash"
  /\ HostMay
  /\ tasks' = RemoveAt(tasks, i)
  /\ last' = Last("del.trash", t.path, <<>>, <<>>, "error")
  /\ UNCHANGED <<vault, items, tagIndex, isLoading, ops, loads>>
  /\ UNCHANGED otherVars

\* ------------------------------------ EventHandler and StoreOperations
\* The store as the classes EventHandler and StoreOperations have it: the
\* same map, index and host, the notifications handled by EventHandler. Its
\* FileOperations (isRelevantFile, waitForCacheAndAdd, generateFileName,
\* hasRelevantChanges, processFile) are those defined above.

\* StoreOperations.addOccurrence
addOccurrence(s, item) ==
  St(MapSet(s.items, item.path, item), updateIndexes(s.idx, item, "add"),
     Append(s.ev, Ev("item-added", item.path, item)))

\* StoreOperations.updateOccurrence
updateOccurrence(s, item) ==
  LET idx == IF item.path \in DOMAIN s.items
             THEN updateIndexes(s.idx, s.items[item.path], "remove")
             ELSE s.idx
  IN St(MapSet(s.items, item.path, item), updateIndexes(idx, item, "add"),
        Append(s.ev, Ev("item-updated", item.path, item)))

\* StoreOperations.removeOccurrenceFromPath
removeOccurrenceFromPath(s, path) ==
  St(MapDelete(s.items, path),
     IF path \in DOMAIN s.items THEN updateIndexes(s.idx, s.items[path], "remove") ELSE s.idx,
     Append(s.ev, Ev("item-removed", path, NoItem)))

\* EventHandler.addOccurrenceFromFile up to its await of processFile
addOccurrenceFromFileTasks(v, f) ==
  <<Task("ehadd", "add.then", f, processFile(v, f), <<>>, NoPath, 0, FALSE, NoArg)>>

\* waitForCacheAndAdd(file, callback) up to its first suspension
ehWaitTasks(v, f) ==
  IF CacheReady(getFileCache(v, f)) THEN addOccurrenceFromFileTasks(v, f)
  ELSE <<Task("ehpoll", "poll.wait", f, NoItem, <<>>, NoPath, 1, FALSE, NoArg)>>

\* EventHandler.onFileCreated
onFileCreated(v, f) == IF isRelevantFile(v[f].path) THEN ehWaitTasks(v, f) ELSE <<>>

\* EventHandler.onFileDeleted
onFileDeleted(s, path) == IF isRelevantFile(path) THEN removeOccurrenceFromPath(s, path) ELSE s

\* EventHandler.onFileRenamed
onFileRenamed(v, s, f, oldPath) ==
  [s |-> IF isRelevantFile(oldPath) THEN removeOccurrenceFromPath(s, oldPath) ELSE s,
   tasks |-> IF isRelevantFile(v[f].path) THEN ehWaitTasks(v, f) ELSE <<>>]

\* EventHandler.onMetadataChanged up to its first await
onMetadataChanged(v, f) ==
  IF ~isRelevantFile(v[f].path) THEN <<>>
  ELSE LET g == generateFileName(v, f) IN
       <<Task("ehchg", "chg.gen", f, NoItem, <<>>, [NoPath EXCEPT !.base = g.name], 0, g.ok, NoArg)>>

\* a file appears in the vault; its metadata is not cached yet
EhCreated(p, fm) ==
  /\ EnvMay
  /\ HostMay
  /\ UnusedIds # {}
  /\ ~getAbstractFileByPath(vault, p)
  /\ LET f == CHOOSE g \in UnusedIds : \A h \in UnusedIds : g <= h
         v == [vault EXCEPT ![f] = [st |-> "live", path |-> p, disk |-> fm, cache |-> BlankFM("unready")]]
         new == onFileCreated(v, f)
     IN /\ Len(tasks) + Len(new) <= MaxTasks
        /\ vault' = v
        /\ tasks' = tasks \o new
        /\ last' = Last("eh.create", p, <<>>, <<>>, "")
  /\ ops' = ops + 1
  /\ UNCHANGED <<items, tagIndex, isLoading, loads>>
  /\ UNCHANGED otherVars

\* the metadata cache catches up with the file and notifies "changed"
EhRefreshed(f) ==
  /\ HostMay
  /\ Live(f)
  /\ vault[f].cache # vault[f].disk
  /\ LET v == [vault EXCEPT ![f].cache = vault[f].disk]
         new == onMetadataChanged(v, f)
     IN /\ Len(tasks) + Len(new) <= MaxTasks
        /\ vault' = v
        /\ tasks' = tasks \o new
        /\ last' = Last("eh.changed", vault[f].path, <<>>, <<>>, "refresh")
  /\ UNCHANGED <<items, tagIndex, isLoading, ops, loads>>
  /\ UNCHANGED otherVars

\* the file's front matter is edited; the cache follows and notifies
EhEdited(f, fm) ==
  /\ EnvMay
  /\ HostMay
  /\ Live(f)
  /\ fm # vault[f].disk
  /\ LET v == [vault EXCEPT ![f].disk = fm, ![f].cache = fm]
         new == onMetadataChanged(v, f)
     IN /\ Len(tasks) + Len(new) <= MaxTasks
        /\ vault' = v
        /\ tasks' = tasks \o new
        /\ last' = Last("eh.changed", vault[f].path, <<>>, <<>>, "edit")
  /\ ops' = ops + 1
  /\ UNCHANGED <<items, tagIndex, isLoading, loads>>
  /\ UNCHANGED otherVars

\* the file is deleted
EhDeleted(f) ==
  LET s == onFileDeleted(St(items, tagIndex, <<>>), vault[f].path) IN
  /\ EnvMay
  /\ HostMay
  /\ Live(f)
  /\ vault' = [vault EXCEPT ![f] = Gone(vault[f].path)]
  /\ items' = s.items
  /\ tagIndex' = s.idx
  /\ last' = Last("eh.delete", vault[f].path, s.ev, <<>>, "")
  /\ ops' = ops + 1
  /\ UNCHANGED <<isLoading, tasks, loads>>
  /\ UNCHANGED otherVars

\* the file is renamed from outside
EhRenamed(f, p, keep) ==
  /\ EnvMay
  /\ HostMay
  /\ Live(f)
  /\ ~getAbstractFileByPath(vault, p)
  /\ LET v == Renamed(vault, f, p, keep)
         r == onFileRenamed(v, St(items, tagIndex, <<>>), f, vault[f].path)
     IN /\ Len(tasks) + Len(r.tasks) <= MaxTasks
        /\ vault' = v
        /\ items' = r.s.items
        /\ tagIndex' = r.s.idx
        /\ tasks' = tasks \o r.tasks
        /\ last' = Last("eh.rename", vault[f].path, r.s.ev, <<>>, "")
  /\ ops' = ops + 1
  /\ UNCHANGED <<isLoading, loads>>
  /\ UNCHANGED otherVars

\* the timer of waitForCacheAndAdd fires
EhPollTick(i) ==
  LET t == tasks[i] IN
  /\ t.pc = "poll.wait"
  /\ MicroIdle
  /\ \A j \in DOMAIN tasks : j # i => Quiet(tasks[j])
  /\ IF t.n < maxAttempts /\ ~CacheReady(getFileCache(vault, t.file))
     THEN /\ tasks' = [tasks EXCEPT ![i] = [t EXCEPT !.n = t.n + 1]]
          /\ last' = Last("eh.poll", vault[t.file].path, <<>>, <<>>, "wait")
     ELSE /\ tasks' = RemoveAt(tasks, i) \o addOccurrenceFromFileTasks(vault, t.file)
          /\ last' = Last("eh.poll", vault[t.file].path, <<>>, <<>>,
                          IF t.n < maxAttempts THEN "ready" ELSE "gave-up")
  /\ UNCHANGED <<vault, items, tagIndex, isLoading, ops, loads>>
  /\ UNCHANGED otherVars

\* addOccurrenceFromFile resumed with the record of processFile
EhAddThen(i) ==
  LET t == tasks[i]
      s == addOccurrence(St(items, tagIndex, <<>>), t.item)
  IN
  /\ t.pc = "add.then"
  /\ items' = s.items
  /\ tagIndex' = s.idx
  /\ tasks' = RemoveAt(tasks, i)
  /\ last' = Last("eh.add", t.item.path, s.ev, <<>>, "done")
  /\ UNCHANGED <<vault, isLoading, ops, loads>>
  /\ UNCHANGED otherVars

\* onMetadataChanged resumed with the result of generateFileName
EhGen(i) ==
  LET t == tasks[i]
      f == t.file
      cur == vault[f].path
      newFilePath == [dir |-> cur.dir, base |-> t.path.base, ext |-> "md"]
  IN
  /\ t.pc = "chg.gen"
  /\ UNCHANGED <<vault, isLoading, ops, loads>>
  /\ IF t.b /\ t.path.base # cur.base
     THEN IF getAbstractFileByPath(vault, newFilePath)
          THEN /\ tasks' = RemoveAt(tasks, i)
               /\ last' = Last("eh.gen", cur, <<>>, <<>>, "target-exists")
               /\ UNCHANGED <<items, tagIndex>>
          ELSE LET s == removeOccurrenceFromPath(St(items, tagIndex, <<>>), cur) IN
               /\ items' = s.items
               /\ tagIndex' = s.idx
               /\ tasks' = [tasks EXCEPT ![i] = [t EXCEPT !.pc = "chg.rename", !.path = newFilePath]]
               /\ last' = Last("eh.gen", cur, s.ev, <<HostCall("rename", f, newFilePath)>>, "renaming")
     ELSE /\ UNCHANGED <<items, tagIndex>>
          /\ IF cur \notin DOMAIN items
             THEN /\ tasks' = RemoveAt(tasks, i)
                  /\ last' = Last("eh.gen", cur, <<>>, <<>>, "not-stored")
             ELSE /\ tasks' = [tasks EXCEPT ![i] =
                        [t EXCEPT !.pc = "chg.has", !.b = hasRelevantChanges(vault, items, f)]]
                  /\ last' = Last("eh.gen", cur, <<>>, <<>>, "checking")
  /\ UNCHANGED otherVars

\* resumed with the result of hasRelevantChanges
EhHas(i) ==
  LET t == tasks[i] IN
  /\ t.pc = "chg.has"
  /\ IF t.b
     THEN /\ tasks' = [tasks EXCEPT ![i] =
                [t EXCEPT !.pc = "chg.proc", !.item = processFile(vault, t.file)]]
          /\ last' = Last("eh.has", vault[t.file].path, <<>>, <<>>, "changed")
     ELSE /\ tasks' = RemoveAt(tasks, i)
          /\ last' = Last("eh.has", vault[t.file].path, <<>>, <<>>, "unchanged")
  /\ UNCHANGED <<vault, items, tagIndex, isLoading, ops, loads>>
  /\ UNCHANGED otherVars

\* resumed with the record of processFile: updateOccurrence
EhProc(i) ==
  LET t == tasks[i]
      s == updateOccurrence(St(items, tagIndex, <<>>), t.item)
  IN
  /\ t.pc = "chg.proc"
  /\ items' = s.items
  /\ tagIndex' = s.idx
  /\ tasks' = RemoveAt(tasks, i)
  /\ last' = Last("eh.proc", t.item.path, s.ev, <<>>, "updated")
  /\ UNCHANGED <<vault, isLoading, ops, loads>>
  /\ UNCHANGED otherVars

\* the rename handleFileRename asked for succeeds
EhRenameDone(i) ==
  LET t == tasks[i]
      f == t.file
      v == Renamed(vault, f, t.path, TRUE)
      r == onFileRenamed(v, St(items, tagIndex, <<>>), f, vault[f].path)
  IN
  /\ t.pc = "chg.rename"
  /\ HostMay
  /\ CanRename(f, t.path)
  /\ vault' = v
  /\ items' = r.s.items
  /\ tagIndex' = r.s.idx
  /\ tasks' = RemoveAt(tasks, i) \o r.tasks
  /\ last' = Last("eh.renamed", vault[f].path, r.s.ev, <<>>, "renamed")
  /\ UNCHANGED <<isLoading, ops, loads>>
  /\ UNCHANGED otherVars

\* the rename fails: the catch block calls addOccurrenceFromFile(file)
EhRenameFail(i) ==
  LET t == tasks[i] IN
  /\ t.pc = "chg.rename"
  /\ HostMay
  /\ tasks' = RemoveAt(tasks, i) \o addOccurrenceFromFileTasks(vault, t.file)
  /\ last' = Last("eh.renamed", vault[t.file].path, <<>>, <<>>, "rename-failed")
  /\ UNCHANGED <<vault, items, tagIndex, isLoading, ops, loads>>
  /\ UNCHANGED otherVars

Next ==
  \/ LoadCall
  \/ \E i \in DOMAIN tasks : LoadStep(i)
  \/ \E f \in FileIds : AddCall(f)
  \/ \E i \in DOMAIN tasks : AddThen(i)
  \/ \E p \in KnownPaths : RemoveCall(p)
  \/ \E i \in DOMAIN tasks : PollTick(i)
  \/ \E i \in DOMAIN tasks : ChgGen(i)
  \/ \E i \in DOMAIN tasks : ChgHas(i)
  \/ \E i \in DOMAIN tasks : ChgProc(i)
  \/ \E p \in HostPaths, fm \in {F1, F3} : HostCreate(p, fm)
  \/ \E f \in FileIds : HostRefresh(f)
  \/ \E f \in FileIds : HostTouch(f)
  \/ \E f \in FileIds, fm \in Edits : HostEdit(f, fm)
  \/ \E f \in FileIds : HostDelete(f)
  \/ \E f \in FileIds, p \in HostPaths, keep \in BOOLEAN : HostRename(f, p, keep)
  \/ \E i \in DOMAIN tasks : ChgRenameDone(i)
  \/ \E i \in DOMAIN tasks : ChgRenameFail(i)
  \/ \E f \in FileIds, u \in Updates : UpdateCall(f, u)
  \/ \E i \in DOMAIN tasks : UpdRenameDone(i)
  \/ \E i \in DOMAIN tasks : UpdRenameFail(i)
  \/ \E i \in DOMAIN tasks : UpdWriteDone(i)
  \/ \E i \in DOMAIN tasks : UpdWriteFail(i)
  \/ \E i \in DOMAIN tasks : UpdProc(i)
  \/ \E d \in Creates : CreateCall(d)
  \/ \E i \in DOMAIN tasks : CreateFileDone(i)
  \/ \E i \in DOMAIN tasks : CreateFileFail(i)
  \/ \E i \in DOMAIN tasks : CreateWriteDone(i)
  \/ \E i \in DOMAIN tasks : CreateWriteFail(i)
  \/ \E p \in KnownPaths : DeleteCall(p)
  \/ \E i \in DOMAIN tasks : TrashDone(i)
  \/ \E i \in DOMAIN tasks : DelRet(i)
  \/ \E i \in DOMAIN tasks : TrashFail(i)

Spec == Init /\ [][Next]_vars

\* The event loop is fair to the store: a pending microtask runs, and the
\* timer of a waitForCacheAndAdd fires.
MicroStep ==
  \E i \in DOMAIN tasks :
    \/ LoadStep(i) \/ AddThen(i) \/ ChgGen(i) \/ ChgHas(i) \/ ChgProc(i)
    \/ UpdProc(i) \/ DelRet(i)

TimerStep == \E i \in DOMAIN tasks : PollTick(i)

SpecTimers == Init /\ [][Next]_vars /\ WF_vars(MicroStep) /\ WF_vars(TimerStep)

NextHandlers ==
  \/ \E p \in HostPaths, fm \in {F1, F3} : EhCreated(p, fm)
  \/ \E f \in FileIds : EhRefreshed(f)
  \/ \E f \in FileIds, fm \in Edits : EhEdited(f, fm)
  \/ \E f \in FileIds : EhDeleted(f)
  \/ \E f \in FileIds, p \in HostPaths, keep \in BOOLEAN : EhRenamed(f, p, keep)
  \/ \E i \in DOMAIN tasks : EhPollTick(i)
  \/ \E i \in DOMAIN tasks : EhAddThen(i)
  \/ \E i \in DOMAIN tasks : EhGen(i)
  \/ \E i \in DOMAIN tasks : EhHas(i)
  \/ \E i \in DOMAIN tasks : EhProc(i)
  \/ \E i \in DOMAIN tasks : EhRenameDone(i)
  \/ \E i \in DOMAIN tasks : EhRenameFail(i)

SpecHandlers == Init /\ [][NextHandlers]_vars

\* ------------------------------------------------- a store and its searches
\* a store without a file, a task or a record
NoStore ==
  /\ vault = [f \in FileIds |-> NoFile]
  /\ items = EmptyMap
  /\ tagIndex = EmptyIndex
  /\ isLoading = FALSE
  /\ tasks = <<>>
  /\ last = Last("init", NoPath, <<>>, <<>>, "")
  /\ ops = 0
  /\ loads = 0

\* what a step that is no search leaves in srch: the latest result is gone
Stepped(op, order, links) == [SrchInit EXCEPT !.op = op, !.order = order, !.links = links]

\* the store as a search finds it
StoreNow == Store(items, srch.order, tagIndex, srch.links)

\* the callback of add: items.set and the index update (lines 415-416)
SAdd(r) ==
  /\ r.path \notin DOMAIN items
  /\ Len(srch.order) < MaxRecs
  /\ items' = MapSet(items, r.path, r)
  /\ tagIndex' = updateIndexes(tagIndex, r, "add")
  /\ srch' = Stepped("add", Append(srch.order, r.path), srch.links)
  /\ UNCHANGED <<vault, isLoading, tasks, last, ops, loads, bus, pf>>

\* remove(path)
SRemove(path) ==
  LET s == remove(St(items, tagIndex, <<>>), path) IN
  /\ path \in DOMAIN items
  /\ items' = s.items
  /\ tagIndex' = s.idx
  /\ srch' = Stepped("remove", SelectSeq(srch.order, LAMBDA q : q # path), srch.links)
  /\ UNCHANGED <<vault, isLoading, tasks, last, ops, loads, bus, pf>>

\* the changed handler replaces the record of a file whose tags were
\* edited (lines 312-314); Map.set keeps the place of a key it has
SChanged(path, tags) ==
  /\ path \in DOMAIN items
  /\ items[path].tags # tags
  /\ LET item == [items[path] EXCEPT !.tags = tags] IN
     /\ items' = MapSet(items, path, item)
     /\ tagIndex' = changedIndexUpdate(tagIndex, items[path], item)
  /\ srch' = Stepped("changed", srch.order, srch.links)
  /\ UNCHANGED <<vault, isLoading, tasks, last, ops, loads, bus, pf>>

\* the host resolves the links anew
SLinks(links) ==
  /\ links # srch.links
  /\ srch' = Stepped("links", srch.order, links)
  /\ UNCHANGED <<storeVars, bus, pf>>

\* search(options); it reads the store and writes nothing, so that a search
\* made right after another finds what it would have found in its place:
\* the searches taken are those that follow a step of the store or the host
SearchCall(o) ==
  /\ srch.op # "search"
  /\ \E res \in search(StoreNow, o) :
        srch' = [srch EXCEPT !.op = "search", !.opts = o, !.res = res]
  /\ UNCHANGED <<storeVars, bus, pf>>

NextSearch ==
  \/ \E r \in SearchRecs : SAdd(r)
  \/ \E path \in DOMAIN items : SRemove(path)
  \/ \E path \in DOMAIN items, tags \in {<<"t2">>} : SChanged(path, tags)
  \/ \E links \in LinkGraphs : SLinks(links)
  \/ \E o \in SearchOpts : SearchCall(o)

InitSearch == NoStore /\ bus = BusInit /\ srch = SrchInit /\ pf = PfInit

SpecSearch == InitSearch /\ [][NextSearch]_vars

\* an EventManager and its callers
NextBus ==
  \/ \E a \in HandlerActs : BusCall(a)
  \/ \E e \in EvNames : BusEmit(e)
  \/ \E a \in HandlerActs : BusDeliver(a)

\* the store plays no part
InitBus == NoStore /\ bus = BusInit /\ srch = SrchInit /\ pf = PfInit

SpecBus == InitBus /\ [][NextBus]_vars

\* ------------------------------------------- the parsing functions at work
\* the host with the one file, and the map with its record or without
OneVault(base, cache) ==
  [g \in FileIds |->
     IF g = 1 THEN [st |-> "live", path |-> RootPath(base), disk |-> cache, cache |-> cache]
     ELSE NoFile]

OneMap(p) == IF p.has THEN (RootPath(p.base) :> p.item) ELSE EmptyMap

\* what the metadata cache may hold for the file
PfCaches ==
  {BlankFM("nofm")}
  \cup {MkFM(occ, flag, NoTags, "none") : occ \in RawDates, flag \in BOOLEAN}
  \cup {MkFM("d1", FALSE, tg, x) :
          tg \in {NoTags, TagArr(<<"t1">>), TagStr("t1"), [k |-> "num", v |-> <<>>]},
          x \in {"none", "v1", "v2"}}

\* the base names the file may have
PfBases == {<<"s1", "sp", "a">>, <<"b">>, <<"nan", "sp", "a">>}

\* a file appears in the managed folder; the map has no record of it
PfSeen(base, cache) ==
  /\ pf' = [PfInit EXCEPT !.op = "seen", !.base = base, !.cache = cache]
  /\ UNCHANGED <<storeVars, bus, srch>>

\* the file is parsed and its record stored, as load and add do (lines
\* 373-375 and 410-415)
PfParse ==
  /\ pf.op = "seen"
  /\ pf' = [pf EXCEPT !.op = "parse", !.has = TRUE, !.from = pf.cache,
                      !.item = processFile(OneVault(pf.base, pf.cache), 1)]
  /\ UNCHANGED <<storeVars, bus, srch>>

\* the front matter of the file is edited, and the cache follows
PfEdit(cache) ==
  /\ pf.op \in {"parse", "store"}
  /\ cache # pf.cache
  /\ pf' = [pf EXCEPT !.op = "edit", !.cache = cache, !.res = FALSE, !.name = <<>>, !.back = <<>>]
  /\ UNCHANGED <<storeVars, bus, srch>>

\* hasRelevantChanges(file)
PfDetect ==
  /\ pf.op \in {"seen", "parse", "edit", "store"}
  /\ pf' = [pf EXCEPT !.op = "detect", !.name = <<>>, !.back = <<>>,
                      !.res = hasRelevantChanges(OneVault(pf.base, pf.cache), OneMap(pf), 1)]
  /\ UNCHANGED <<storeVars, bus, srch>>

\* a change was found: the file is parsed anew and the record replaced
\* (lines 306-313)
PfStore ==
  /\ pf.op = "detect"
  /\ pf.res
  /\ pf' = [pf EXCEPT !.op = "store", !.has = TRUE, !.from = pf.cache, !.res = FALSE,
                      !.item = processFile(OneVault(pf.base, pf.cache), 1)]
  /\ UNCHANGED <<storeVars, bus, srch>>

\* the file name of the record's title and date, and the title of a file
\* of that name (applyDatePrefix as generateFileName calls it, lines
\* 623-627, removeDatePrefix as processFile calls it, line 521)
PfName ==
  /\ pf.op \in {"parse", "store"}
  /\ LET name == applyDatePrefix(pf.item.title, pf.item.occurredAt) IN
     pf' = [pf EXCEPT !.op = "name", !.name = name, !.back = removeDatePrefix(name)]
  /\ UNCHANGED <<storeVars, bus, srch>>

NextParse ==
  \/ \E base \in PfBases, cache \in PfCaches : PfSeen(base, cache)
  \/ PfParse
  \/ \E cache \in PfCaches : PfEdit(cache)
  \/ PfDetect
  \/ PfStore
  \/ PfName

InitParse == NoStore /\ bus = BusInit /\ srch = SrchInit /\ pf = PfInit

SpecParse == InitParse /\ [][NextParse]_vars

\* ------------------------------------------------------ a load that fails
\* what the finally block of load leaves in isLoading (line 382)
loadFinallyKeeps(loading) == loading

loadFinally(loading) == FALSE

\* load(): the guard is passed, the map and the index are cleared, and
\* the enumeration of the files throws: the catch block, then the finally
\* block (lines 359-389)
LoadEnumFail ==
  /\ loads < MaxLoads
  /\ PollQuiet
  /\ ~loadGuard(isLoading)
  /\ loads' = loads + 1
  /\ items' = EmptyMap
  /\ tagIndex' = EmptyIndex
  /\ isLoading' = loadFinally(TRUE)
  /\ last' = Last("load", NoPath, <<Ev("loaded", NoPath, NoItem)>>, <<>>, "error")
  /\ UNCHANGED <<vault, tasks, ops>>
  /\ UNCHANGED otherVars

\* load() resumed with the rejection of processFile: the catch block, then
\* the finally block; the files not yet parsed are left out
LoadFail(i) ==
  LET t == tasks[i] IN
  /\ t.pc = "load.step"
  /\ isLoading' = loadFinally(isLoading)
  /\ tasks' = RemoveAt(tasks, i)
  /\ last' = Last("load.step", vault[t.file].path, <<Ev("loaded", NoPath, NoItem)>>, <<>>, "error")
  /\ UNCHANGED <<vault, items, tagIndex, ops, loads>>
  /\ UNCHANGED otherVars

\* a load resumes: a microtask, which runs as soon as the call stack is empty
LoadResumes == \E i \in DOMAIN tasks : LoadStep(i) \/ LoadFail(i)

NextLoad ==
  \/ LoadCall
  \/ LoadEnumFail
  \/ \E i \in DOMAIN tasks : LoadStep(i)
  \/ \E i \in DOMAIN tasks : LoadFail(i)
  \/ \E f \in FileIds : AddCall(f)
  \/ \E i \in DOMAIN tasks : AddThen(i)
  \/ \E q \in KnownPaths : RemoveCall(q)
  \/ \E f \in FileIds : HostDelete(f)

SpecLoad == Init /\ [][NextLoad]_vars /\ WF_vars(LoadResumes)

\* ============================================================ properties
\* the step just taken resumed task i at position pc: the task is gone, or
\* it alone has changed
StepBy(i, pc) ==
  /\ tasks[i].pc = pc
  /\ last'.op = pc
  /\ \/ /\ Len(tasks') >= Len(tasks) - 1
        /\ SubSeq(tasks', 1, Len(tasks) - 1) = RemoveAt(tasks, i)
     \/ /\ Len(tasks') >= Len(tasks)
        /\ tasks'[i] # tasks[i]
        /\ \A j \in DOMAIN tasks : j # i => tasks'[j] = tasks[j]

Emitted(name) == {k \in DOMAIN last.emitted : last.emitted[k].name = name}

LoadsInFlight == Cardinality({i \in DOMAIN tasks : tasks[i].kind = "load"})

\* C1: a load() called while a load is in flight changes neither the map
\* nor the tag index, starts no task and emits nothing; at most one load is
\* ever in flight, and "loaded" is emitted exactly by the step that ends a
\* load (or by a load over no file, which ends at once), once.
C1_SingleFlightLoad ==
  [][ /\ (last'.op = "load" /\ isLoading) =>
           /\ items' = items
           /\ tagIndex' = tagIndex
           /\ tasks' = tasks
           /\ isLoading'
           /\ last'.emitted = <<>>
           /\ last'.calls = <<>>
      /\ LoadsInFlight' <= 1
      /\ isLoading' <=> (LoadsInFlight' = 1)
      /\ Cardinality(Emitted("loaded")') <= 1
      /\ (Emitted("loaded")' # {}) <=>
           \/ LoadsInFlight = 1 /\ LoadsInFlight' = 0
           \/ last'.op = "load" /\ last'.outcome = "done" ]_vars

C1_Witness == last.op = "load" /\ last.outcome = "guarded" /\ isLoading /\ LoadsInFlight = 1

\* the tag index lists p under t exactly when the map holds under p a
\* record whose tags include t
IndexAgrees ==
  \A t \in (DOMAIN tagIndex) \cup UNION {SeqToSet(items[p].tags) : p \in DOMAIN items} :
    \A p \in (DOMAIN items) \cup UNION {tagIndex[u] : u \in DOMAIN tagIndex} :
      (t \in DOMAIN tagIndex /\ p \in tagIndex[t])
        <=> (p \in DOMAIN items /\ t \in SeqToSet(items[p].tags))

\* C2: whenever every operation and handler has completed, the tag index
\* agrees with the map.
C2_IndexAgreesWhenIdle == (tasks = <<>>) => IndexAgrees

\* the changed handler, resumed as task t, finds the file managed, named
\* as generateFileName wants it, and differing from the stored record by
\* its processing flag alone, which went from false to true
C3_FlagFlipped(t) ==
  LET key == vault[t.file].path
      new == processFile(vault, t.file)
      g == generateFileName(vault, t.file)
  IN /\ t.kind = "chg"
     /\ key \in DOMAIN items
     /\ g.ok /\ g.name = key.base
     /\ getFileCache(vault, t.file).st = "fm"
     /\ ~items[key].toProcess
     /\ new.toProcess
     /\ [new EXCEPT !.toProcess = FALSE] = items[key]

\* C3: the changed handler of a managed, canonically named file whose
\* processing flag alone went from false to true emits nothing until it has
\* re-parsed the file, and then emits exactly one item-updated, with a
\* record whose toProcess is true and which is the record now stored under
\* the file's path; it emits neither item-removed nor item-added.
C3_FlagFlipUpdates ==
  [][ \A i \in DOMAIN tasks :
        /\ (StepBy(i, "chg.gen") /\ tasks[i].b /\ tasks[i].path.base = vault[tasks[i].file].path.base
              /\ C3_FlagFlipped(tasks[i])) =>
             /\ tasks'[i].pc = "chg.has" /\ tasks'[i].b
             /\ last'.emitted = <<>>
             /\ items' = items
        /\ (StepBy(i, "chg.has") /\ C3_FlagFlipped(tasks[i])) =>
             /\ tasks[i].b => tasks'[i].pc = "chg.proc"
             /\ last'.emitted = <<>>
             /\ items' = items
        /\ (StepBy(i, "chg.proc") /\ C3_FlagFlipped(tasks[i])) =>
             /\ last'.emitted = <<Ev("item-updated", vault[tasks[i].file].path, tasks[i].item)>>
             /\ tasks[i].item.toProcess
             /\ items'[vault[tasks[i].file].path] = tasks[i].item ]_vars

C3_Witness ==
  \E i \in DOMAIN tasks : tasks[i].pc = "chg.proc" /\ C3_FlagFlipped(tasks[i])

\* the changed handler, resumed as task t, finds the file managed, no
\* rename wanted, and the record parsed from it equal to the stored one
C4_NothingChanged(t) ==
  LET key == vault[t.file].path IN
  /\ t.kind = "chg"
  /\ key \in DOMAIN items
  /\ ~(t.b /\ t.path.base # key.base)
  /\ processFile(vault, t.file) = items[key]

\* C4: the changed handler of a managed file for which no rename is wanted
\* and whose parsed record equals the stored one finds no relevant change
\* and ends: map and tag index stay as they are, no host call is made and
\* no event is emitted.
C4_UnchangedIsNoOp ==
  [][ \A i \in DOMAIN tasks :
        (StepBy(i, "chg.gen") /\ C4_NothingChanged(tasks[i])) =>
          /\ tasks'[i].pc = "chg.has"
          /\ ~tasks'[i].b
          /\ items' = items
          /\ tagIndex' = tagIndex
          /\ last'.emitted = <<>>
          /\ last'.calls = <<>> ]_vars

\* a live file of the host has path p
PathTaken(p) == \E g \in FileIds : vault[g].st = "live" /\ vault[g].path = p

\* the changed handler, resumed as task t, wants file t.file, which is
\* managed, under another base name, and the path with that name is free
C5_RenameImplied(t) ==
  LET cur == vault[t.file].path IN
  /\ t.kind = "chg"
  /\ t.b /\ t.path.base # cur.base
  /\ cur \in DOMAIN items
  /\ ~PathTaken([cur EXCEPT !.base = t.path.base])

\* C5: when the changed handler of a managed file wants another base name
\* and the target path is free, it removes the record under the old path,
\* emitting item-removed and no other event, asks the host for the rename
\* and waits; it never stores the record under the new path itself: when
\* the host has renamed the file the rename notification starts the add
\* that will store it, so that item-added comes after item-removed, and
\* neither step emits item-updated.
C5_RenameProtocol ==
  [][ /\ \A i \in DOMAIN tasks :
           /\ (StepBy(i, "chg.gen") /\ C5_RenameImplied(tasks[i])) =>
                LET old == vault[tasks[i].file].path
                    new == [old EXCEPT !.base = tasks[i].path.base]
                IN /\ items' = MapDelete(items, old)
                   /\ last'.emitted = <<Ev("item-removed", old, NoItem)>>
                   /\ last'.calls = <<HostCall("rename", tasks[i].file, new)>>
                   /\ tasks'[i].pc = "chg.rename" /\ tasks'[i].path = new
                   /\ vault' = vault
           /\ (StepBy(i, "chg.rename") /\ last'.outcome = "renamed") =>
                /\ vault'[tasks[i].file].path = tasks[i].path
                /\ isRelevantFile(vault[tasks[i].file].path) =>
                     vault[tasks[i].file].path \notin DOMAIN items'
                /\ \A k \in DOMAIN last'.emitted : last'.emitted[k].name = "item-removed"
                /\ \E j \in DOMAIN tasks' :
                      /\ tasks'[j].file = tasks[i].file
                      /\ tasks'[j].pc \in {"add.then", "poll.wait"}
      /\ (last'.op \in {"chg.gen", "chg.rename"}) =>
            /\ \A k \in DOMAIN last'.emitted : last'.emitted[k].name = "item-removed"
            /\ \A q \in DOMAIN items' : q \in DOMAIN items /\ items'[q] = items[q] ]_vars

C5_Witness ==
  /\ last.op = "chg.gen" /\ last.outcome = "renaming"
  /\ Len(last.emitted) = 1 /\ last.emitted[1].name = "item-removed"
  /\ \E i \in DOMAIN tasks : tasks[i].pc = "chg.rename"

\* C6: when the rename the changed handler asked for fails, and the file
\* still has a managed path (the one it had, the rename having failed),
\* the handler starts an add of the file, and the add, when it completes,
\* stores the file's record under that path and lists it in the tag index
\* under each of its tags.
C6_FailedRenameRestores ==
  [][ \A i \in DOMAIN tasks :
        /\ (StepBy(i, "chg.rename") /\ last'.outcome = "rename-failed"
              /\ isRelevantFile(vault[tasks[i].file].path)) =>
             /\ vault' = vault
             /\ \E j \in DOMAIN tasks' :
                   /\ tasks'[j].pc = "add.then"
                   /\ tasks'[j].file = tasks[i].file
                   /\ tasks'[j].item.path = vault[tasks[i].file].path
        /\ StepBy(i, "add.then") =>
             LET it == tasks[i].item IN
             /\ it.path = vault[tasks[i].file].path
             /\ it.path \in DOMAIN items' /\ items'[it.path] = it
             /\ \A t \in SeqToSet(it.tags) : t \in DOMAIN tagIndex' /\ it.path \in tagIndex'[t] ]_vars

\* the rename has failed for a file whose record had been stored and was
\* removed (the tag index keeps the entries the removal emptied), and the
\* add is under way
C6_Witness ==
  /\ last.op = "chg.rename" /\ last.outcome = "rename-failed"
  /\ last.path \notin DOMAIN items
  /\ \E j \in DOMAIN tasks :
        /\ tasks[j].pc = "add.then" /\ tasks[j].item.path = last.path
        /\ \E t \in DOMAIN tagIndex : last.path \notin tagIndex[t] /\ t \in SeqToSet(tasks[j].item.tags)

\* C7: removing a path the map does not hold, by remove(path) or by the
\* delete notification of a file with a managed path, changes neither the
\* map nor the tag index and emits no event.
C7_AbsentRemovalIsNoOp ==
  [][ (last'.op \in {"remove", "host.delete", "eh.delete"}
         /\ isRelevantFile(last'.path) /\ last'.path \notin DOMAIN items) =>
        /\ items' = items
        /\ tagIndex' = tagIndex
        /\ last'.emitted = <<>> ]_vars


\* C8: an update of a stored record that asks for a title or a date whose
\* path is another path than the file's and is taken in the host fails with
\* a conflict: no host call is issued, no task is started, no event is
\* emitted, and map, tag index and host are as they were.
C8_UpdateConflict ==
  [][ (last'.op = "update" /\ last'.path \in DOMAIN items) =>
        LET u == last'.arg
            cur == items[last'.path]
            newPath == RootPath(<<FormatDate(IF u.setDate THEN u.occurredAt ELSE cur.occurredAt), "sp">>
                                  \o (IF u.title # <<>> THEN u.title ELSE cur.title))
        IN ((u.title # <<>> \/ u.setDate) /\ newPath # last'.path /\ PathTaken(newPath)) =>
             /\ last'.outcome = "conflict"
             /\ last'.calls = <<>>
             /\ last'.emitted = <<>>
             /\ items' = items
             /\ tagIndex' = tagIndex
             /\ tasks' = tasks
             /\ vault' = vault ]_vars

C8_Witness ==
  /\ last.op = "update" /\ last.outcome = "conflict"
  /\ last.path \in DOMAIN items

\* C9: update and delete for a path the map does not hold fail with not
\* found: map, tag index and host are as they were, no task is started, no
\* event is emitted and no host call is issued.
C9_NotFoundNoEffect ==
  [][ (last'.op \in {"update", "delete"} /\ last'.path \notin DOMAIN items) =>
        /\ last'.outcome = "not-found"
        /\ last'.calls = <<>>
        /\ last'.emitted = <<>>
        /\ items' = items
        /\ tagIndex' = tagIndex
        /\ tasks' = tasks
        /\ vault' = vault ]_vars

C9_Witness ==
  /\ last.op \in {"update", "delete"} /\ last.outcome = "not-found"
  /\ last.path \notin DOMAIN items

\* the path create computes from the title and the timestamp of argument a
C10_Path(a) ==
  RootPath(<<FormatDate(IF a.setDate THEN a.occurredAt ELSE Now1), "sp">>
             \o (IF a.title # <<>> THEN a.title ELSE <<"untitled">>))

\* C10: create fails with duplicate when a file exists at the path computed
\* from title and timestamp, and then the host, the map and the tasks are
\* as they were and no host call is issued; otherwise it asks the host for
\* a file at that path; the host's creation makes exactly one file, at
\* that path, and is followed by the request to write; the write gives the
\* file the initial fields and changes nothing else.
C10_CreateOrDuplicate ==
  [][ /\ (last'.op = "create") =>
           IF PathTaken(C10_Path(last'.arg))
           THEN /\ last'.outcome = "duplicate"
                /\ last'.calls = <<>>
                /\ vault' = vault /\ items' = items /\ tagIndex' = tagIndex /\ tasks' = tasks
           ELSE /\ last'.outcome = "creating"
                /\ last'.calls = <<HostCall("create", 0, C10_Path(last'.arg))>>
                /\ vault' = vault /\ items' = items
      /\ \A i \in DOMAIN tasks :
           /\ (StepBy(i, "create.create") /\ last'.outcome = "created") =>
                /\ Cardinality({g \in FileIds : vault'[g] # vault[g]}) = 1
                /\ \E g \in FileIds :
                      /\ vault[g].st = "none" /\ vault'[g].st = "live"
                      /\ vault'[g].path = C10_Path(tasks[i].arg)
                      /\ last'.calls = <<HostCall("write", g, vault'[g].path)>>
                /\ items' = items
           /\ (StepBy(i, "create.write") /\ last'.outcome = "ok") =>
                LET g == tasks[i].file
                    a == tasks[i].arg
                IN /\ \A h \in FileIds \ {g} : vault'[h] = vault[h]
                   /\ vault'[g].path = vault[g].path
                   /\ vault'[g].disk.st = "fm"
                   /\ vault'[g].disk.occ = (IF a.setDate THEN a.occurredAt ELSE Now2)
                   /\ vault'[g].disk.flag = (IF a.setDate THEN a.toProcess ELSE TRUE)
                   /\ normalizeTags(vault'[g].disk.tags) = a.tags
                   /\ items' = items ]_vars

C10_Witness == last.op = "create" /\ last.outcome = "duplicate"

C12_AbsentNoRename(t) ==
  LET key == vault[t.file].path IN
  /\ t.kind = "chg"
  /\ isRelevantFile(key)
  /\ key \notin DOMAIN items
  /\ ~(t.b /\ t.path.base # key.base)

\* C12: the changed handler of a file under a managed path the map does not
\* hold, no rename being wanted, finds a relevant change and goes on to
\* parse the file; once it has parsed it, it stores the record under the
\* file's path and lists the path in the tag index under each of the
\* record's tags.
C12_AbsentChangedIsCreate ==
  [][ \A i \in DOMAIN tasks :
        /\ (StepBy(i, "chg.gen") /\ C12_AbsentNoRename(tasks[i])) =>
             /\ tasks'[i].pc = "chg.has"
             /\ tasks'[i].b
        /\ (StepBy(i, "chg.proc") /\ vault[tasks[i].file].path \notin DOMAIN items) =>
             LET key == vault[tasks[i].file].path IN
             /\ key \in DOMAIN items'
             /\ items'[key] = tasks[i].item
             /\ \A t \in SeqToSet(tasks[i].item.tags) :
                   t \in DOMAIN tagIndex' /\ key \in tagIndex'[t] ]_vars

\* a waitForCacheAndAdd is waiting for its timer
PollWaiting == \E i \in DOMAIN tasks : tasks[i].pc = "poll.wait"

\* the step just taken is the timer of the wait that is task i: the wait
\* is over and task i is gone, or it goes on and task i alone has changed
PollStepBy(i) ==
  /\ tasks[i].pc = "poll.wait"
  /\ last'.op = "poll"
  /\ \/ /\ last'.outcome # "wait"
        /\ SubSeq(tasks', 1, Len(tasks) - 1) = RemoveAt(tasks, i)
     \/ /\ last'.outcome = "wait"
        /\ Len(tasks') = Len(tasks)
        /\ tasks'[i] # tasks[i]
        /\ \A j \in DOMAIN tasks : j # i => tasks'[j] = tasks[j]

\* C13: a waitForCacheAndAdd has polled the cache between 1 and maxAttempts
\* times; when its timer fires before the last attempt it polls once more
\* and either waits again, having added nothing, or, the metadata being
\* ready, ends with add(file); when the timer fires after the last attempt
\* it ends with add(file) whatever the cache says; add(file) starts exactly
\* one addition of a file under a managed path; and every wait ends.
C13_WaitTerminatesWithAdd ==
  /\ [][ \A i \in DOMAIN tasks :
           /\ tasks[i].pc = "poll.wait" => tasks[i].n \in 1..maxAttempts
           /\ PollStepBy(i) =>
                LET t == tasks[i]
                    ready == CacheReady(getFileCache(vault, t.file))
                IN /\ items' = items /\ tagIndex' = tagIndex /\ vault' = vault
                   /\ last'.emitted = <<>>
                   /\ IF t.n < maxAttempts /\ ~ready
                      THEN /\ Len(tasks') = Len(tasks)
                           /\ tasks'[i] = [t EXCEPT !.n = t.n + 1]
                      ELSE /\ SubSeq(tasks', 1, Len(tasks) - 1) = RemoveAt(tasks, i)
                           /\ IF isRelevantFile(vault[t.file].path)
                              THEN /\ Len(tasks') = Len(tasks)
                                   /\ tasks'[Len(tasks)].pc = "add.then"
                                   /\ tasks'[Len(tasks)].file = t.file
                                   /\ tasks'[Len(tasks)].item = processFile(vault, t.file)
                              ELSE Len(tasks') = Len(tasks) - 1 ]_vars
  /\ (PollWaiting ~> ~PollWaiting)

\* the cache stayed unready through every attempt and the add is made
C13_Witness ==
  /\ last.op = "poll" /\ last.outcome = "gave-up"
  /\ \E j \in DOMAIN tasks :
        /\ tasks[j].pc = "add.then"
        /\ vault[tasks[j].file].path = last.path
        /\ ~CacheReady(getFileCache(vault, tasks[j].file))

\* C14: emit goes through the handlers that were subscribed to the event
\* when it started, in the order of their subscription, one call each,
\* whatever the handlers called so far have subscribed or unsubscribed, and
\* calls no handler subscribed since; an emit that returns has called them
\* all, and an emit ends before that only because the handler it called
\* last threw.
C14_EmitCallsSnapshot ==
  [][ /\ bus'.op = "emit" =>
           /\ bus'.called = <<>>
           /\ bus'.handlers = bus.events[bus'.event]
      /\ bus'.op = "deliver" =>
           /\ bus'.handlers = bus.handlers
           /\ Len(bus.called) < Len(bus.handlers)
           /\ bus'.called = Append(bus.called, bus.handlers[Len(bus.called) + 1])
           /\ \A k \in DOMAIN bus'.called : bus'.called[k].ref < bus'.startId
      /\ (bus'.op \in {"emit", "deliver"} /\ bus'.status = "returned") =>
           bus'.called = bus'.handlers
      /\ (bus'.op \in {"emit", "deliver"} /\ bus'.status = "threw") =>
           bus'.op = "deliver" /\ bus'.act.k = "throw" ]_vars

\* an emit has returned after calling two handlers or more, and what the
\* handlers did has changed the subscriptions to the event
C14_Witness ==
  /\ bus.op = "deliver" /\ bus.status = "returned"
  /\ Len(bus.called) >= 2
  /\ bus.called = bus.handlers
  /\ bus.events[bus.event] # bus.handlers

\* C14 as stated: whenever an emit ends, it has called every handler that
\* was subscribed to the event when it started exactly once, in order.
C14_EmitCallsAll ==
  [][ (bus'.op \in {"emit", "deliver"} /\ bus'.status # "running") =>
        bus'.called = bus'.handlers ]_vars

\* C15: a handler that emit calls was subscribed before the emit started
\* and under a ref for which no offref had returned by then; offref(ref),
\* called from outside or by a handler, takes away the subscription made
\* under ref and leaves every other subscription, of every event, where it
\* was; and emit leaves the subscriptions as they are.
C15_NoReplayAndTokens ==
  [][ /\ bus'.op = "deliver" =>
           LET h == bus'.called[Len(bus'.called)] IN
           /\ h.ref < bus.startId
           /\ h.ref \notin bus.startRevoked
      /\ bus'.op = "emit" =>
           /\ bus'.events = bus.events
           /\ \A k \in DOMAIN bus'.handlers : bus'.handlers[k].ref \notin bus.revoked
      /\ (bus'.op \in {"offref", "deliver"} /\ bus'.act.k = "offref") =>
           /\ bus'.revoked = bus.revoked \cup {bus'.act.ref}
           /\ \A e \in EvNames :
                 bus'.events[e] = SelectSeq(bus.events[e], LAMBDA it : it.ref # bus'.act.ref) ]_vars

\* a subscription was taken away with offref before the emit started, and
\* the emit has called a handler subscribed after the first subscription
C15_Witness ==
  /\ bus.op = "deliver"
  /\ bus.startRevoked # {}
  /\ \E k \in DOMAIN bus.called : bus.called[k].ref > 0

\* the records of a sequence
Returned == SeqToSet(srch.res.items)

\* every stored record has a valid date
AllDated == \A q \in DOMAIN items : ~IsNaNTime(items[q].occurredAt)

Reverse(list) == [k \in DOMAIN list |-> list[Len(list) + 1 - k]]

\* C16: a search with limit (100 when not given) and offset (0 when not
\* given) returns as total the length of the filtered, sorted list, as
\* items the elements of that list from position offset up to, and not
\* including, position offset + limit, at most limit of them, and as
\* hasMore whether offset + limit < total.
C16_Pagination ==
  (srch.op = "search") =>
    LET o == srch.opts
        lim == IF o.hasLimit THEN o.limit ELSE 100
        from == IF o.hasOffset THEN o.offset ELSE 0
    IN \E sorted \in SortOutcomes(filtered(StoreNow, o), sortOrderOf(o)) :
         /\ srch.res.total = Len(sorted)
         /\ srch.res.items = SubSeq(sorted, from + 1, Min2(from + lim, Len(sorted)))
         /\ Len(srch.res.items) <= lim
         /\ srch.res.hasMore = (from + lim < srch.res.total)

\* C17: over stored records that all have a valid date, a search returns
\* the sequence that the same search returns over the same records
\* inserted in any other order.
C17_OrderIsTotal ==
  (srch.op = "search" /\ AllDated) =>
    \A order \in Perms(srch.order) :
      \A res \in search(Store(items, order, tagIndex, srch.links), srch.opts) :
        res.items = srch.res.items

\* C18: over stored records that all have a valid date, the items of a
\* search in ascending order, with no limit and no offset given, are those
\* of the same search in descending order, reversed.
C18_AscReversesDesc ==
  (srch.op = "search" /\ AllDated /\ srch.opts.sortOrder = "asc"
     /\ ~srch.opts.hasLimit /\ ~srch.opts.hasOffset) =>
    \A res \in search(StoreNow, [srch.opts EXCEPT !.sortOrder = "desc"]) :
      srch.res.items = Reverse(res.items)

\* the stored record under path q satisfies every filter that options o
\* give
C19_Passes(q, o) ==
  /\ Len(o.tags) > 0 => SeqToSet(items[q].tags) \cap SeqToSet(o.tags) # {}
  /\ o.linksTo # NoPath => (q \in DOMAIN srch.links /\ o.linksTo \in srch.links[q])
  /\ o.hasToProcess => items[q].toProcess = o.toProcess
  /\ o.query # <<>> => matchesTitle(items[q].title, toLowerCase(o.query))

\* C19: the records a search returns (no limit and no offset given) are the
\* stored records that satisfy every filter given: one of the tags, a link
\* to the target, the processing flag, a title that matches the query.
C19_FiltersConjoin ==
  (srch.op = "search" /\ ~srch.opts.hasLimit /\ ~srch.opts.hasOffset) =>
    Returned = {items[q] : q \in {r \in DOMAIN items : C19_Passes(r, srch.opts)}}

\* the stored paths whose entry in the link graph has the target
C20_Linking(target) ==
  {q \in DOMAIN items : q \in DOMAIN srch.links /\ target \in srch.links[q]}

\* C20: a search with a linksTo target returns stored records only, each of
\* a path whose entry in the link graph, as it is at the call, has the
\* target; when linksTo is the only filter it returns the record of every
\* such path.
C20_ReverseLinks ==
  (srch.op = "search" /\ srch.opts.linksTo # NoPath) =>
    /\ \A r \in Returned :
          r.path \in C20_Linking(srch.opts.linksTo) /\ items[r.path] = r
    /\ (Len(srch.opts.tags) = 0 /\ ~srch.opts.hasToProcess /\ srch.opts.query = <<>>) =>
          {r.path : r \in Returned} = C20_Linking(srch.opts.linksTo)

\* a search by target alone has returned a record while a note that is not
\* stored links to the target too and a stored record does not
C20_Witness ==
  /\ srch.op = "search" /\ srch.opts.linksTo = LinkTarget
  /\ Len(srch.opts.tags) = 0 /\ ~srch.opts.hasToProcess /\ srch.opts.query = <<>>
  /\ Returned # {}
  /\ OtherNote \in DOMAIN srch.links /\ LinkTarget \in srch.links[OtherNote]
  /\ \E q \in DOMAIN items : q \notin C20_Linking(LinkTarget)

\* the occurred-at field is missing: absent, or present without a value
Missing(raw) == raw \in {"none", "null"}

\* the occurred-at field has a value that is no date
Unparsable(raw) == raw = "bad"

\* C21: the record parsed from a file has toProcess exactly when the raw
\* occurred-at field is missing or unparsable or the raw flag is set, and
\* has the invalid Date for timestamp whenever the field is missing or
\* unparsable; and the values change detection parses from a cache are
\* those of the record parsed from it.
C21_OneRule ==
  /\ pf.op \in {"parse", "store"} =>
        /\ pf.item.toProcess <=>
              (Missing(pf.from.occ) \/ Unparsable(pf.from.occ) \/ pf.from.flag)
        /\ (Missing(pf.from.occ) \/ Unparsable(pf.from.occ)) =>
              pf.item.occurredAt = InvalidDate
  /\ (pf.op = "detect" /\ pf.cache.st = "fm") =>
        LET new == processFile(OneVault(pf.base, pf.cache), 1) IN
        /\ newOccurredAt(pf.cache) = new.occurredAt
        /\ newToProcess(pf.cache) = new.toProcess

\* C22: change detection for a file the map has no record of returns
\* true; and for a file whose record was parsed from what the metadata
\* cache holds now it returns false.
C22_DetectionStable ==
  pf.op = "detect" =>
    /\ ~pf.has => pf.res
    /\ (pf.has /\ pf.from = pf.cache) => ~pf.res

\* C23: the file name built from a record's title and timestamp, with its
\* date prefix removed, is the record's title.
C23_NameRoundTrip ==
  pf.op = "name" => pf.back = pf.item.title

\* a path in the managed folder, with the extension of a note
C24_Managed(p) == p.dir # <<>> /\ p.dir[1] = "Occurrences" /\ p.ext = "md"

\* the managed files of the host
C24_ManagedFiles == {g \in FileIds : vault[g].st = "live" /\ C24_Managed(vault[g].path)}

\* the map that holds the record of each file of G, and nothing else
C24_MapOf(G) ==
  [p \in {vault[g].path : g \in G} |->
     processFile(vault, CHOOSE g \in G : vault[g].path = p)]

\* the tag index that lists exactly the tags of the records of map m
C24_IndexOf(m) ==
  [t \in UNION {SeqToSet(m[p].tags) : p \in DOMAIN m} |->
     {p \in DOMAIN m : t \in SeqToSet(m[p].tags)}]

\* the managed files a load has stored when it is about to store t.file
C24_Loaded(t) == {g \in C24_ManagedFiles : g < t.file}

C24_First(G) == CHOOSE g \in G : \A h \in G : g <= h

\* C24: a load that passes the guard empties the map and the tag index,
\* whatever they held, and starts with the first managed file of the host
\* (it ends at once when there is none); each of its steps, finding in the
\* map and the index exactly what the load has stored so far, adds the
\* record of its file and that record's tags, and goes on to the next
\* managed file; the step that stores the last one ends the load with the
\* map holding the record of every managed file, under its path, and no
\* other key, and the index listing exactly these records' tags.
C24_LoadRebuilds ==
  [][ /\ (last'.op = "load" /\ last'.outcome # "guarded") =>
           /\ items' = EmptyMap
           /\ tagIndex' = EmptyIndex
           /\ IF C24_ManagedFiles = {}
              THEN ~isLoading' /\ tasks' = tasks
              ELSE /\ isLoading'
                   /\ Len(tasks') = Len(tasks) + 1
                   /\ tasks'[Len(tasks')].pc = "load.step"
                   /\ tasks'[Len(tasks')].file = C24_First(C24_ManagedFiles)
      /\ \A i \in DOMAIN tasks :
           (/\ StepBy(i, "load.step")
            /\ items = C24_MapOf(C24_Loaded(tasks[i]))
            /\ tagIndex = C24_IndexOf(items)) =>
             LET G == C24_Loaded(tasks[i]) \cup {tasks[i].file} IN
             /\ tasks[i].file \in C24_ManagedFiles
             /\ vault' = vault
             /\ items' = C24_MapOf(G)
             /\ tagIndex' = C24_IndexOf(items')
             /\ IF G = C24_ManagedFiles
                THEN /\ last'.outcome = "done"
                     /\ ~isLoading'
                     /\ \A p \in DOMAIN items' : C24_Managed(p)
                ELSE /\ isLoading'
                     /\ tasks'[i].pc = "load.step"
                     /\ tasks'[i].file = C24_First(C24_ManagedFiles \ G) ]_vars

\* a second load has ended: the host has a file outside the managed folder
\* and the map holds the records of the managed files, and only them
C24_Witness ==
  /\ last.op = "load.step" /\ last.outcome = "done"
  /\ loads = 2
  /\ \E g \in FileIds : vault[g].st = "live" /\ ~C24_Managed(vault[g].path)
  /\ C24_ManagedFiles # {}
  /\ items = C24_MapOf(C24_ManagedFiles)
  /\ tagIndex = C24_IndexOf(items)

\* C25: notifications are handled as they come, each on its own. The
\* delete notification of a file whose managed path the map holds removes
\* the record and emits item-removed for the path in the step that
\* delivers it, deferring nothing. The create notification of a file at a
\* managed path, whether or not the path was deleted before, starts a wait
\* of its own for the new file and neither emits nor stores anything itself.
\* The wait ends with an add of the file, and the add stores the record
\* under the path the file has and emits exactly item-added for it: a path
\* deleted and created anew is announced by item-removed, then by
\* item-added, and is in the map once both are handled.
C25_DeleteThenCreate ==
  [][ /\ (last'.op = "host.delete" /\ C24_Managed(last'.path) /\ last'.path \in DOMAIN items) =>
           /\ last'.emitted = <<Ev("item-removed", last'.path, NoItem)>>
           /\ items' = MapDelete(items, last'.path)
           /\ tasks' = tasks
      /\ last'.op = "host.create" =>
           /\ last'.emitted = <<>>
           /\ items' = items /\ tagIndex' = tagIndex
           /\ \E f \in FileIds :
                 /\ vault[f].st = "none" /\ vault'[f].st = "live" /\ vault'[f].path = last'.path
                 /\ IF C24_Managed(last'.path)
                    THEN /\ Len(tasks') = Len(tasks) + 1
                         /\ SubSeq(tasks', 1, Len(tasks)) = tasks
                         /\ tasks'[Len(tasks')].file = f
                         /\ tasks'[Len(tasks')].pc \in {"poll.wait", "add.then"}
                    ELSE tasks' = tasks
      /\ \A i \in DOMAIN tasks :
           /\ (PollStepBy(i) /\ last'.outcome # "wait" /\ C24_Managed(vault[tasks[i].file].path)) =>
                /\ Len(tasks') = Len(tasks)
                /\ tasks'[Len(tasks')].pc = "add.then"
                /\ tasks'[Len(tasks')].file = tasks[i].file
                /\ last'.emitted = <<>>
           /\ StepBy(i, "add.then") =>
                LET q == vault[tasks[i].file].path IN
                /\ tasks[i].item.path = q
                /\ last'.emitted = <<Ev("item-added", q, tasks[i].item)>>
                /\ q \in DOMAIN items' /\ items'[q] = tasks[i].item ]_vars

\* a file was deleted, another was created at its path, and the add of the
\* new file has just stored its record and announced it
C25_Witness ==
  /\ last.op = "add.then"
  /\ Len(last.emitted) = 1 /\ last.emitted[1].name = "item-added"
  /\ last.path \in DOMAIN items
  /\ loads >= 1
  /\ \E g, f \in FileIds :
        /\ vault[g].st = "gone" /\ vault[g].path = last.path
        /\ vault[f].st = "live" /\ vault[f].path = last.path
        /\ items[last.path].file = f

\* the metadata cache has, for file f of host v, an occurred-at field that
\* is a date
C26_Valid(v, f) ==
  /\ v[f].st = "live"
  /\ v[f].cache.st = "fm"
  /\ v[f].cache.occ \in Instants

\* the canonical name of file f: the date of its occurred-at field, a
\* blank, and its title
C26_Canon(v, f) ==
  <<FormatDate(v[f].cache.occ), "sp">> \o Trim(ReplaceFirstMatch(v[f].path.base))

\* C26: the changed notification of a managed file whose occurred-at field
\* is a date computes the canonical name of the file. When the file has
\* another name and the path with the canonical name is free, the handler
\* asks the host to rename the file to that path; when the host has done
\* so the file has the path asked for, its name is the canonical name of
\* the file as it is then (the field being what it was), and the rename
\* notification has started the wait that ends in the add of the file; the
\* add stores the record under the path the file has. When the file has
\* the canonical name already, no rename is asked for.
C26_SelfHealingName ==
  [][ /\ last'.op = "host.changed" =>
           \A f \in FileIds :
             (vault'[f].st = "live" /\ vault'[f].path = last'.path
                /\ C24_Managed(last'.path) /\ C26_Valid(vault', f)) =>
               /\ Len(tasks') = Len(tasks) + 1
               /\ tasks'[Len(tasks')].pc = "chg.gen"
               /\ tasks'[Len(tasks')].file = f
               /\ tasks'[Len(tasks')].b
               /\ tasks'[Len(tasks')].path.base = C26_Canon(vault', f)
      /\ \A i \in DOMAIN tasks :
           LET f == tasks[i].file
               cur == vault[f].path
               target == [cur EXCEPT !.base = C26_Canon(vault, f)]
           IN
           /\ (StepBy(i, "chg.gen") /\ C24_Managed(cur) /\ C26_Valid(vault, f)) =>
                IF target = cur
                THEN last'.calls = <<>> /\ tasks'[i].pc = "chg.has" /\ vault' = vault
                ELSE IF PathTaken(target)
                THEN last'.calls = <<>> /\ last'.outcome = "target-exists" /\ vault' = vault
                ELSE /\ last'.calls = <<HostCall("rename", f, target)>>
                     /\ tasks'[i].pc = "chg.rename"
                     /\ tasks'[i].path = target
           /\ (StepBy(i, "chg.rename") /\ last'.outcome = "renamed") =>
                /\ vault'[f].path = tasks[i].path
                /\ (C26_Valid(vault, f) /\ tasks[i].path.base = C26_Canon(vault, f)) =>
                     vault'[f].path.base = C26_Canon(vault', f)
                /\ C24_Managed(tasks[i].path) =>
                     /\ Len(tasks') = Len(tasks)
                     /\ tasks'[Len(tasks')].file = f
                     /\ tasks'[Len(tasks')].pc \in {"poll.wait", "add.then"}
           /\ StepBy(i, "add.then") =>
                /\ vault[f].path \in DOMAIN items'
                /\ items'[vault[f].path] = tasks[i].item
                /\ tasks[i].item.path = vault[f].path
                /\ tasks[i].item.title = Trim(ReplaceFirstMatch(vault[f].path.base)) ]_vars

\* the host has renamed a file to its canonical name, which it did not
\* have, and the add of the file under its new path is under way
C26_Witness ==
  /\ last.op = "chg.rename" /\ last.outcome = "renamed"
  /\ \E j \in DOMAIN tasks :
        LET f == tasks[j].file IN
        /\ tasks[j].pc = "add.then"
        /\ C26_Valid(vault, f)
        /\ vault[f].path # last.path
        /\ vault[f].path.dir = last.path.dir
        /\ last.path.base # C26_Canon(vault, f)
        /\ vault[f].path.base = C26_Canon(vault, f)
        /\ tasks[j].item.path = vault[f].path

\* C27: when the changed handler replaces the record stored under a path,
\* the tag index loses the path under the tags of the record that was
\* stored and gains it under the tags of the new record, so that afterwards
\* the path is listed under tags of the new record only.
C27_UpdateUsesOldTags ==
  [][ \A i \in DOMAIN tasks :
        LET key == vault[tasks[i].file].path IN
        (StepBy(i, "chg.proc") /\ key \in DOMAIN items) =>
          /\ tagIndex' = updateIndexes(updateIndexes(tagIndex, items[key], "remove"),
                                       tasks[i].item, "add")
          /\ \A t \in DOMAIN tagIndex' :
                key \in tagIndex'[t] => t \in SeqToSet(tasks[i].item.tags) ]_vars

\* records a and b differ in a field change detection is about
C28_Differ(a, b) ==
  \/ a.occurredAt # b.occurredAt
  \/ a.toProcess # b.toProcess
  \/ a.tags # b.tags
  \/ a.x # b.x

\* C28: change detection for a file the map has a record of returns true
\* exactly when the record parsed from what the metadata cache holds now
\* differs from the stored one in its timestamp, its flag, its tags or its
\* other property (a key added, changed or removed).
C28_DetectsDifference ==
  (pf.op = "detect" /\ pf.has) =>
    (pf.res <=> C28_Differ(processFile(OneVault(pf.base, pf.cache), 1), pf.item))

\* C29: no delete, rename or changed notification of a file is handled
\* while the handler of an earlier notification of that file is suspended;
\* and when the wait that a create or a rename notification started ends
\* in the add of its file, the file has not been deleted meanwhile.
C29_NoInterleaving ==
  [][ /\ last'.op \in {"host.delete", "host.rename", "host.changed"} =>
           \A i \in DOMAIN tasks :
             tasks[i].kind \in {"poll", "chg"} => vault[tasks[i].file].path # last'.path
      /\ \A i \in DOMAIN tasks :
           (PollStepBy(i) /\ last'.outcome # "wait") => Live(tasks[i].file) ]_vars

\* C30: an item-added is emitted for a path the map did not hold before
\* the step, an item-removed and an item-updated for a path it did hold, and
\* after an item-added or an item-updated the map holds the path.
C30_Lifecycle ==
  [][ \A k \in DOMAIN last'.emitted :
        LET e == last'.emitted[k] IN
        /\ e.name = "item-added" => (e.path \notin DOMAIN items /\ e.path \in DOMAIN items')
        /\ e.name = "item-updated" => (e.path \in DOMAIN items /\ e.path \in DOMAIN items')
        /\ e.name = "item-removed" => (e.path \in DOMAIN items /\ e.path \notin DOMAIN items') ]_vars

\* C31: generateFileName gives no name for a file whose occurred-at field
\* is missing or unparsable; when it gives one, the file's timestamp is a
\* valid Date and the name is the one built from the file's title and
\* timestamp.  (The changed handler holds the result while it waits at
\* its first await.)
C31_NameOnlyForValidDate ==
  \A i \in DOMAIN tasks :
    tasks[i].pc = "chg.gen" =>
      LET t == tasks[i]
          c == FrontmatterOrEmpty(getFileCache(vault, t.file))
          rec == processFile(vault, t.file)
      IN
      /\ (Missing(c.occ) \/ Unparsable(c.occ)) => ~t.b
      /\ t.b => /\ ~IsNaNTime(rec.occurredAt)
                /\ t.path.base = applyDatePrefix(rec.title, rec.occurredAt)

\* C32: once the host has renamed a file to the name generateFileName
\* gives for it, generateFileName gives for the renamed file, its content
\* being what it was, no name or the name it has, so that the changed
\* handler (line 297) requests no further rename.
C32_RenamingConverges ==
  [][ \A i \in DOMAIN tasks :
        (/\ StepBy(i, "chg.rename")
         /\ last'.outcome = "renamed"
         /\ generateFileName(vault, tasks[i].file) = [ok |-> TRUE, name |-> tasks[i].path.base]) =>
          LET f == tasks[i].file
              g == generateFileName(vault', f)
          IN g.ok => g.name = vault'[f].path.base ]_vars

\* update has returned for the managed file f after writing tags that
\* differ from those the metadata cache still holds
C33_Returned(f) ==
  /\ last.op = "upd.proc"
  /\ Live(f)
  /\ last.path = vault[f].path
  /\ isRelevantFile(vault[f].path)
  /\ CacheReady(vault[f].cache)
  /\ normalizeTags(vault[f].disk.tags) # normalizeTags(vault[f].cache.tags)

\* nothing is pending for file f: no task, and the cache has caught up
C33_Settled(f) == tasks = <<>> /\ Live(f) /\ vault[f].cache = vault[f].disk

\* the map holds for file f the record of the written front matter, and
\* the tag index lists its path under exactly that record's tags
C33_Reindexed(f) ==
  LET p == vault[f].path IN
  /\ p \in DOMAIN items
  /\ items[p] = ParseFile(f, p, vault[f].disk)
  /\ \A t \in (DOMAIN tagIndex) \cup SeqToSet(items[p].tags) :
        (t \in DOMAIN tagIndex /\ p \in tagIndex[t]) <=> t \in SeqToSet(items[p].tags)

\* C33: from the moment update has returned after changing a record's
\* tags, and for as long as nothing else is done from outside, whenever
\* every notification has been handled the map holds the record of the
\* merged properties and the tag index lists its path under exactly the
\* record's tags.
C33_UpdateReindexes ==
  \A n \in 0..MaxOps : \A f \in FileIds :
    []((C33_Returned(f) /\ ops = n) =>
         []((C33_Settled(f) /\ ops = n) => C33_Reindexed(f)))

\* the host has just created or deleted file f
C34_HostChanged(f) ==
  /\ last.path = vault[f].path
  /\ \/ last.op = "host.create" /\ Live(f)
     \/ last.op = "host.delete" /\ vault[f].st = "gone"

\* every handler, poll and add has completed, and the metadata cache has
\* caught up with file f if it exists
C34_Settled(f) == tasks = <<>> /\ (Live(f) => vault[f].cache = vault[f].disk)

\* C34: from the moment the host has created or deleted a file, and for
\* as long as nothing else is done from outside, whenever every handler,
\* poll and add has completed the map holds a record under the file's path
\* exactly if the file exists and is managed: a file that is deleted
\* leaves no record behind.
C34_MapFollowsHost ==
  \A n \in 0..MaxOps : \A f \in FileIds :
    []((C34_HostChanged(f) /\ ops = n) =>
         []((C34_Settled(f) /\ ops = n) =>
              (vault[f].path \in DOMAIN items <=> (Live(f) /\ isRelevantFile(vault[f].path)))))

\* the step just taken ended the changed handler that is task i without
\* a rename under way: the target of the rename exists (line 336), nothing
\* relevant has changed (line 306), or the record was replaced (line 315)
C35_HandlerEnded(i) ==
  \/ StepBy(i, "chg.gen") /\ last'.outcome = "target-exists"
  \/ StepBy(i, "chg.has") /\ last'.outcome = "unchanged"
  \/ StepBy(i, "chg.proc")

\* C35: when the changed handler has ended for a file, the record the map
\* holds under the file's path is the record parsed from what the metadata
\* cache holds for the file; so it is when the handler skipped a rename
\* because the target path exists.
C35_RecordFollowsChange ==
  [][ \A i \in DOMAIN tasks :
        C35_HandlerEnded(i) =>
          LET f == tasks[i].file
              key == vault'[f].path
          IN key \in DOMAIN items' => items'[key] = processFile(vault', f) ]_vars

\* C36: every entry of the map is keyed by the path its record bears, so
\* that no record is held under two keys.
C36_KeyedByOwnPath ==
  /\ \A k \in DOMAIN items : items[k].path = k
  /\ \A j, k \in DOMAIN items : items[j] = items[k] => j = k

\* update has renamed a file and stored its record under the new path, and
\* the old path is no key any more
C36_Witness ==
  /\ last.op = "upd.proc"
  /\ last.path \in DOMAIN items
  /\ items[last.path].path = last.path
  /\ last.path.base = <<"s1", "sp", "b">>
  /\ RootPath(<<"s1", "sp", "a">>) \notin DOMAIN items

\* C37: in the state a completed load leaves, the one in which "loaded"
\* has just been emitted, isLoaded is true, whatever the vault holds; a
\* view that waits for isLoaded then waits no longer.
C37_LoadedAfterLoad ==
  Emitted("loaded") # {} => isLoaded(isLoading, items)

\* the "loaded" events among those the latest step emitted
C38_Loaded(l) == {k \in DOMAIN l.emitted : l.emitted[k].name = "loaded"}

\* C38: a load that ends, be it over its last file, over no file, or
\* because the enumeration or a parse threw, leaves the loading flag
\* cleared and emits "loaded" once and nothing else; the flag is set
\* exactly while a load is in flight, a load() is turned away by the guard
\* only while one is, and every load in flight ends.
C38_LoadAlwaysEnds ==
  /\ [][ /\ (last'.op \in {"load", "load.step"} /\ last'.outcome \in {"done", "error"}) =>
             /\ ~isLoading'
             /\ Len(last'.emitted) = 1
             /\ Cardinality(C38_Loaded(last')) = 1
        /\ (last'.op = "load" /\ last'.outcome = "guarded") => LoadsInFlight = 1 ]_vars
  /\ [](isLoading <=> LoadsInFlight = 1)
  /\ (isLoading ~> ~isLoading)

\* a parse threw while another file was still to be parsed: the load has
\* ended, the flag is cleared and "loaded" was emitted
C38_Witness ==
  /\ last.op = "load.step"
  /\ last.outcome = "error"
  /\ ~isLoading
  /\ Cardinality(C38_Loaded(last)) = 1
  /\ LoadsInFlight = 0
  /\ Len(getRelevantFiles(vault)) > Cardinality(DOMAIN items)

\* the tag index lists path p under tag t
C39_Listed(p, t) == t \in DOMAIN tagIndex /\ p \in tagIndex[t]

\* C39: an event is emitted by the last statement of the operation that
\* changes the map, so its handlers see the state the operation leaves:
\* for an item-added or item-updated the map holds the announced record
\* under its path and the tag index lists the path under each of its tags;
\* for an item-removed the map holds nothing under the path and the tag
\* index lists the path under no tag.
C39_EmitAfterChange ==
  \A k \in DOMAIN last.emitted :
    LET e == last.emitted[k] IN
    /\ e.name \in {"item-added", "item-updated"} =>
          /\ e.path \in DOMAIN items
          /\ items[e.path] = e.item
          /\ \A t \in SeqToSet(e.item.tags) : C39_Listed(e.path, t)
    /\ e.name = "item-removed" =>
          /\ e.path \notin DOMAIN items
          /\ \A t \in DOMAIN tagIndex : ~C39_Listed(e.path, t)

====
